---- MODULE Spec2Model ----
(***************************************************************************)
(* State-machine model of the Phase 2A coordination layer:                 *)
(*   - AgentStatus and AgentDispatcher (coordinator/agent_dispatcher.py)   *)
(*   - RoutingLogic (coordinator/routing_logic.py)                         *)
(* Coroutines are modelled at the granularity of the event loop: one       *)
(* action is the code that runs between two suspension points (awaits).    *)
(***************************************************************************)
EXTENDS Integers, Sequences, FiniteSets, TLC

(***************************************************************************)
(* Bounds of the model.                                                    *)
(***************************************************************************)
\* AgentStatus objects ever allocated (register_agent calls).
MaxRegs == 2
\* agent.process_query invocations made through the dispatcher.
MaxCalls == 2
\* cap on consecutive_failures (the code lets it grow without bound).
MaxFailures == 3
\* cap on current_agent_index (the code lets it grow without bound).
MaxCursor == 2
\* longest backup_agents list handed to dispatch_with_failover.
MaxBackups == 2
\* longest candidate list handed to select_agent.
MaxCands == 2
\* update_health calls applied to the stand-alone AgentStatus of SpecStatus.
MaxHist == 6
\* longest query (in words) handed to analyze_query.
MaxQueryLen == 3
\* largest domain score (in tenths) of the score vectors routed directly.
MaxScore == 25
\* CoordinatorAgent.process_query calls made in one behaviour.
MaxQueries == 2
\* entries of a dict handed to _combine_agent_responses on its own.
MaxResponses == 2
\* BaseAgent.process_query calls made on the one agent in one behaviour.
MaxAgentCalls == 6
\* select_agent calls recorded for one candidate list, and the cap on the
\* round-robin cursor when only select_agent runs
MaxSelects == 4
MaxRobin == 6

\* agent names callers may use; any of them may or may not be registered.
Names == {"a", "b"}
\* concurrent callers (coroutines) of the dispatcher.
Procs == {1, 2}
\* the coroutines that dispatch requests, and the one that runs health checks
Callers == {1}
Monitors == {2}
\* elapsed times (in clock ticks) a call may be measured to take: where load
\* balancing reads them, and where nothing does.
RespTimes == {1, 2}
Ticks == {1}
\* what set_load_balancing_strategy may be handed.
StrategyInputs == {"round_robin", "least_connections", "fastest_response", "random"}

NoAgent == "none"

(***************************************************************************)
(* State.                                                                  *)
(***************************************************************************)
VARIABLES
    agents,                   \* AgentDispatcher.agents: the registered names (keys)
    agent_status,             \* AgentDispatcher.agent_status: name -> reference into heap
    heap,                     \* the AgentStatus objects ever created, by reference
    load_balancing_strategy,  \* AgentDispatcher.load_balancing_strategy
    current_agent_index,      \* AgentDispatcher.current_agent_index
    pc,                       \* per caller: "idle", "dispatch", "failover", "health"
    frame,                    \* per caller: the locals of its suspended coroutine
    ev,                       \* what the last step handed back to its caller, if anything
    status,                   \* a stand-alone AgentStatus (SpecStatus)
    hist,                     \* history: the update_health arguments applied to status
                              \* (SpecStatus), the select_agent calls made with one
                              \* candidate list (SpecRoundRobin)
    query,                    \* the query handed to analyze_query (SpecRouting)
    score_vector,             \* the scores dict of analyze_query, in tenths (SpecScores)
    decision,                 \* the RoutingDecision it returned
    coord_agents,             \* CoordinatorAgent.agents: agent id -> agent instance
    coord_metrics,            \* CoordinatorAgent's request/collaboration/error counts
    coord_pc,                 \* the coordinator's caller: "idle", "single", "collaboration"
    coord_frame,              \* the locals of its suspended process_query
    coord_ev,                 \* what the last process_query handed back
    coord_is_healthy,         \* CoordinatorAgent.is_healthy
    agent_metrics,            \* a BaseAgent's request_count and error_count
    circuit_breaker,          \* its circuit breaker: current_state and failure counter
    tornado,                  \* whether pybreaker found tornado (what call_async needs)
    agent_pc,                 \* per caller of its process_query: "idle", "awaiting"
    agent_frame,              \* per caller: the locals of the suspended call
    agent_ev,                 \* what the last process_query step handed back
    internal_failures         \* history: the _process_query_internal calls that
                              \* failed since the last one that returned

vars == <<agents, agent_status, heap, load_balancing_strategy, current_agent_index,
          pc, frame, ev, status, hist, query, score_vector, decision,
          coord_agents, coord_metrics, coord_pc, coord_frame, coord_ev,
          coord_is_healthy,
          agent_metrics, circuit_breaker, tornado, agent_pc, agent_frame, agent_ev,
          internal_failures>>

agentVars == <<agent_metrics, circuit_breaker, tornado, agent_pc, agent_frame, agent_ev,
               internal_failures>>

coordVars == <<coord_agents, coord_metrics, coord_pc, coord_frame, coord_ev,
               coord_is_healthy>>

dispatcherVars == <<agents, agent_status, heap, load_balancing_strategy,
                    current_agent_index, pc, frame, ev>>

(***************************************************************************)
(* Small helpers.                                                          *)
(***************************************************************************)
RECURSIVE GCD(_, _)
GCD(x, y) == IF y = 0 THEN x ELSE GCD(y, x % y)

\* sequences over S of length 0..n
SeqsUpTo(S, n) == UNION { [1..k -> S] : k \in 0..n }

Range(s) == { s[i] : i \in DOMAIN s }

(***************************************************************************)
(* AgentStatus.                                                            *)
(* avg_response_time is kept as the exact fraction num/den in lowest terms;*)
(* last_health_check and last_response_time are never read by the          *)
(* dispatcher and are left out.                                            *)
(***************************************************************************)
FAILURE_LIMIT == 3

AgentStatus(agent_name) ==
    [agent_name |-> agent_name,
     is_available |-> TRUE,
     consecutive_failures |-> 0,
     total_requests |-> 0,
     successful_requests |-> 0,
     failed_requests |-> 0,
     avg_response_time |-> [num |-> 0, den |-> 1]]

\* update_health taking the agent out of rotation one failure too late
update_health_late(s, is_healthy) ==
    IF is_healthy
    THEN [s EXCEPT !.is_available = TRUE, !.consecutive_failures = 0]
    ELSE LET n == s.consecutive_failures + 1
         IN [s EXCEPT !.consecutive_failures = n,
                      !.is_available = IF n > FAILURE_LIMIT THEN FALSE ELSE @]

\* update_health whose healthy branch clears the counter but not the flag
update_health_sticky(s, is_healthy) ==
    IF is_healthy
    THEN [s EXCEPT !.consecutive_failures = 0]
    ELSE LET n == s.consecutive_failures + 1
         IN [s EXCEPT !.consecutive_failures = n,
                      !.is_available = IF n >= FAILURE_LIMIT THEN FALSE ELSE @]

update_health(s, is_healthy) ==
    IF is_healthy
    THEN [s EXCEPT !.is_available = TRUE, !.consecutive_failures = 0]
    ELSE LET n == s.consecutive_failures + 1
         IN [s EXCEPT !.consecutive_failures = n,
                      !.is_available = IF n >= FAILURE_LIMIT THEN FALSE ELSE @]

\* (avg * (n - 1) + t) / n, in exact arithmetic
RunningMean(avg, n, t) ==
    LET num == avg.num * (n - 1) + t * avg.den
        den == avg.den * n
        g == GCD(num, den)
    IN [num |-> num \div g, den |-> den \div g]

update_request_stats(s, success, response_time) ==
    LET n == s.total_requests + 1
    IN [s EXCEPT !.total_requests = n,
                 !.successful_requests = IF success THEN @ + 1 ELSE @,
                 !.failed_requests = IF success THEN @ ELSE @ + 1,
                 !.avg_response_time =
                     IF n = 1 THEN [num |-> response_time, den |-> 1]
                     ELSE RunningMean(@, n, response_time)]

AvgLess(x, y) == x.num * y.den < y.num * x.den

(***************************************************************************)
(* AgentDispatcher: construction and registry.                             *)
(***************************************************************************)
NoFrame == [agent_name |-> NoAgent, agent_status |-> 0, primary_agent |-> NoAgent,
            backup_agents |-> <<>>, all_agents |-> <<>>, idx |-> 0,
            tasks |-> <<>>]

NoEvent == [op |-> "none", agent_name |-> NoAgent, agent_names |-> <<>>,
            outcome |-> "none", response |-> NoAgent, agent_used |-> NoAgent,
            health_results |-> <<>>]

RECURSIVE SumRequests(_, _)
SumRequests(h, i) == IF i = 0 THEN 0 ELSE h[i].total_requests + SumRequests(h, i - 1)

\* agent.process_query invocations made so far: the completed and the awaited ones
Calls == SumRequests(heap, Len(heap))
         + Cardinality({p \in Procs : pc[p] \in {"dispatch", "failover"}})

DispatcherInit ==
    /\ agents = {}
    /\ agent_status = [n \in {} |-> 0]
    /\ heap = <<>>
    /\ load_balancing_strategy = "round_robin"
    /\ current_agent_index = 0
    /\ pc = [p \in Procs |-> "idle"]
    /\ frame = [p \in Procs |-> NoFrame]
    /\ ev = NoEvent

\* dict[key] = value
DictSet(d, k, v) == [x \in (DOMAIN d) \cup {k} |-> IF x = k THEN v ELSE d[x]]
\* del dict[key]
DictDel(d, k) == [x \in (DOMAIN d) \ {k} |-> d[x]]

\* register_agent leaving the status of an already registered name alone
register_agent_keeps_status(agent_name) ==
    /\ Len(heap) < MaxRegs
    /\ agents' = agents \cup {agent_name}
    /\ IF agent_name \in DOMAIN agent_status
       THEN UNCHANGED <<heap, agent_status>>
       ELSE /\ heap' = Append(heap, AgentStatus(agent_name))
            /\ agent_status' = DictSet(agent_status, agent_name, Len(heap) + 1)
    /\ ev' = NoEvent
    /\ UNCHANGED <<load_balancing_strategy, current_agent_index, pc, frame>>

register_agent(agent_name) ==
    /\ Len(heap) < MaxRegs
    /\ agents' = agents \cup {agent_name}
    /\ heap' = Append(heap, AgentStatus(agent_name))
    /\ agent_status' = DictSet(agent_status, agent_name, Len(heap) + 1)
    /\ ev' = NoEvent
    /\ UNCHANGED <<load_balancing_strategy, current_agent_index, pc, frame>>

\* unregister_agent forgetting the status entry
unregister_agent_keeps_status(agent_name) ==
    /\ agents' = agents \ {agent_name}
    /\ ev' = NoEvent
    /\ UNCHANGED <<agent_status, heap, load_balancing_strategy, current_agent_index,
                   pc, frame>>

unregister_agent(agent_name) ==
    /\ IF agent_name \in agents
       THEN /\ agents' = agents \ {agent_name}
            /\ agent_status' = DictDel(agent_status, agent_name)
       ELSE UNCHANGED <<agents, agent_status>>
    /\ ev' = NoEvent
    /\ UNCHANGED <<heap, load_balancing_strategy, current_agent_index, pc, frame>>

get_available_agents ==
    { n \in DOMAIN agent_status : heap[agent_status[n]].is_available }

set_load_balancing_strategy(strategy) ==
    /\ IF strategy \notin {"round_robin", "least_connections", "fastest_response"}
       THEN /\ UNCHANGED load_balancing_strategy
            /\ ev' = [NoEvent EXCEPT !.op = "set_load_balancing_strategy",
                                     !.outcome = "ValueError"]
       ELSE /\ load_balancing_strategy' = strategy
            /\ ev' = NoEvent
    /\ UNCHANGED <<agents, agent_status, heap, current_agent_index, pc, frame>>

(***************************************************************************)
(* AgentDispatcher.select_agent and the load-balancing strategies.         *)
(***************************************************************************)
IsAvailable(h, name) ==
    name \in DOMAIN agent_status /\ h[agent_status[name]].is_available

\* the candidate filter testing registration only
available_agents_registered(agent_names) ==
    LET ok(name) == name \in DOMAIN agent_status
    IN SelectSeq(agent_names, ok)

available_agents(agent_names) ==
    LET ok(name) == IsAvailable(heap, name)
    IN SelectSeq(agent_names, ok)

\* min(available_agents, key=...): the first element with the least key
_least_connections_select(available) ==
    LET key(i) == heap[agent_status[available[i]]].total_requests
        first == CHOOSE i \in DOMAIN available :
                    /\ \A j \in DOMAIN available : key(i) <= key(j)
                    /\ \A j \in 1..(i - 1) : key(i) < key(j)
    IN available[first]

_fastest_response_select(available) ==
    LET key(i) == heap[agent_status[available[i]]].avg_response_time
        first == CHOOSE i \in DOMAIN available :
                    /\ \A j \in DOMAIN available : ~AvgLess(key(j), key(i))
                    /\ \A j \in 1..(i - 1) : AvgLess(key(i), key(j))
    IN available[first]

\* a pick that never moves on from the first candidate
_round_robin_select_first(available) == available[1]

_round_robin_select(available) ==
    available[(current_agent_index % Len(available)) + 1]

\* whether this select_agent call reaches _round_robin_select
UsesCursor(agent_names) ==
    Len(available_agents(agent_names)) >= 2 /\ load_balancing_strategy = "round_robin"

SelectResult(agent_names) ==
    LET available == available_agents(agent_names)
    IN IF Len(available) = 0 THEN NoAgent
       ELSE IF Len(available) = 1 THEN available[1]
       ELSE IF load_balancing_strategy = "round_robin"
            THEN _round_robin_select(available)
       ELSE IF load_balancing_strategy = "least_connections"
            THEN _least_connections_select(available)
       ELSE IF load_balancing_strategy = "fastest_response"
            THEN _fastest_response_select(available)
       ELSE available[1]

\* one select_agent call, whatever the cursor has reached
select_agent_call(agent_names) ==
    /\ current_agent_index' =
           IF UsesCursor(agent_names) THEN current_agent_index + 1
           ELSE current_agent_index
    /\ ev' = [NoEvent EXCEPT !.op = "select_agent",
                             !.agent_names = agent_names,
                             !.agent_used = SelectResult(agent_names)]
    /\ UNCHANGED <<agents, agent_status, heap, load_balancing_strategy, pc, frame>>

select_agent(agent_names) ==
    /\ UsesCursor(agent_names) => current_agent_index < MaxCursor
    /\ select_agent_call(agent_names)

(***************************************************************************)
(* AgentDispatcher.dispatch_request: the code up to the await of           *)
(* agent.process_query, and the code after it.                             *)
(***************************************************************************)
\* the bookkeeping with the failure path leaving the health counters alone
Bookkeeping_stats_only(h, ref, success, response_time) ==
    [h EXCEPT ![ref] =
        IF success
        THEN update_health(update_request_stats(@, success, response_time), success)
        ELSE update_request_stats(@, success, response_time)]

\* update_request_stats then update_health on the AgentStatus object ref
Bookkeeping(h, ref, success, response_time) ==
    [h EXCEPT ![ref] = update_health(update_request_stats(@, success, response_time),
                                     success)]

\* the bound on consecutive_failures leaves room for one more failure
RoomToFail(ref) == heap[ref].consecutive_failures < MaxFailures

\* dispatch_request without the availability check
dispatch_request_unchecked(p, agent_name) ==
    /\ pc[p] = "idle"
    /\ IF agent_name \notin agents
       THEN /\ ev' = [NoEvent EXCEPT !.op = "dispatch_request",
                                     !.agent_name = agent_name,
                                     !.outcome = "UnknownAgent"]
            /\ UNCHANGED <<pc, frame>>
       ELSE /\ Calls < MaxCalls
            /\ pc' = [pc EXCEPT ![p] = "dispatch"]
            /\ frame' = [frame EXCEPT ![p] =
                            [NoFrame EXCEPT !.agent_name = agent_name,
                                            !.agent_status = agent_status[agent_name]]]
            /\ ev' = NoEvent
    /\ UNCHANGED <<agents, agent_status, heap, load_balancing_strategy, current_agent_index>>

dispatch_request(p, agent_name) ==
    /\ pc[p] = "idle"
    /\ IF agent_name \notin agents
       THEN /\ ev' = [NoEvent EXCEPT !.op = "dispatch_request",
                                     !.agent_name = agent_name,
                                     !.outcome = "UnknownAgent"]
            /\ UNCHANGED <<pc, frame>>
       ELSE IF ~heap[agent_status[agent_name]].is_available
       THEN /\ ev' = [NoEvent EXCEPT !.op = "dispatch_request",
                                     !.agent_name = agent_name,
                                     !.outcome = "AgentUnavailable"]
            /\ UNCHANGED <<pc, frame>>
       ELSE /\ Calls < MaxCalls
            /\ pc' = [pc EXCEPT ![p] = "dispatch"]
            /\ frame' = [frame EXCEPT ![p] =
                            [NoFrame EXCEPT !.agent_name = agent_name,
                                            !.agent_status = agent_status[agent_name]]]
            /\ ev' = NoEvent
    /\ UNCHANGED <<agents, agent_status, heap, load_balancing_strategy, current_agent_index>>

\* agent.process_query returned (success) or raised (~success)
dispatch_request_resume(p, success, response_time) ==
    /\ pc[p] = "dispatch"
    /\ ~success => RoomToFail(frame[p].agent_status)
    /\ heap' = Bookkeeping(heap, frame[p].agent_status, success, response_time)
    /\ pc' = [pc EXCEPT ![p] = "idle"]
    /\ frame' = [frame EXCEPT ![p] = NoFrame]
    /\ ev' = [NoEvent EXCEPT !.op = "dispatch_request",
                             !.agent_name = frame[p].agent_name,
                             !.outcome = IF success THEN "ok" ELSE "AgentError",
                             !.response = IF success THEN frame[p].agent_name
                                          ELSE NoAgent]
    /\ UNCHANGED <<agents, agent_status, load_balancing_strategy, current_agent_index>>

(***************************************************************************)
(* AgentDispatcher.dispatch_with_failover.  The for loop runs without      *)
(* suspension until a candidate passes both checks and dispatch_request    *)
(* awaits its process_query; it resumes when that call returns or raises.  *)
(***************************************************************************)
AllAgents(primary_agent, backup_agents) == <<primary_agent>> \o backup_agents

\* Runs the loop from candidate i on the statuses h, skipping ("continue") the
\* candidates that are not registered or not available: the index of the
\* candidate it dispatches to, 0 when the list is exhausted.
\* the loop skipping unknown names only
RECURSIVE FailoverLoop_unknown_only(_, _, _)
FailoverLoop_unknown_only(all_agents, i, h) ==
    IF i > Len(all_agents) THEN 0
    ELSE IF all_agents[i] \notin agents
         THEN FailoverLoop_unknown_only(all_agents, i + 1, h)
    ELSE i

RECURSIVE FailoverLoop(_, _, _)
FailoverLoop(all_agents, i, h) ==
    IF i > Len(all_agents) THEN 0
    ELSE IF all_agents[i] \notin agents THEN FailoverLoop(all_agents, i + 1, h)
    ELSE IF ~h[agent_status[all_agents[i]]].is_available
         THEN FailoverLoop(all_agents, i + 1, h)
    ELSE i

\* The loop stopped at index i: the call awaits all_agents[i], or (i = 0) raises.
FailoverContinue(p, fr, i) ==
    IF i = 0
    THEN /\ pc' = [pc EXCEPT ![p] = "idle"]
         /\ frame' = [frame EXCEPT ![p] = NoFrame]
         /\ ev' = [NoEvent EXCEPT !.op = "dispatch_with_failover",
                                  !.agent_name = fr.primary_agent,
                                  !.agent_names = fr.all_agents,
                                  !.outcome = "AllAgentsFailed"]
    ELSE /\ Calls < MaxCalls
         /\ pc' = [pc EXCEPT ![p] = "failover"]
         /\ frame' = [frame EXCEPT ![p] =
                         [fr EXCEPT !.idx = i,
                                    !.agent_name = fr.all_agents[i],
                                    !.agent_status = agent_status[fr.all_agents[i]]]]
         /\ ev' = NoEvent

dispatch_with_failover(p, primary_agent, backup_agents) ==
    LET fr == [NoFrame EXCEPT !.primary_agent = primary_agent,
                              !.backup_agents = backup_agents,
                              !.all_agents = AllAgents(primary_agent, backup_agents)]
    IN /\ pc[p] = "idle"
       /\ FailoverContinue(p, fr, FailoverLoop(fr.all_agents, 1, heap))
       /\ UNCHANGED <<agents, agent_status, heap, load_balancing_strategy,
                      current_agent_index>>

\* the resumption without the try/except around dispatch_request
dispatch_with_failover_resume_uncaught(p, success, response_time) ==
    LET fr == frame[p]
    IN /\ pc[p] = "failover"
       /\ ~success => RoomToFail(fr.agent_status)
       /\ heap' = Bookkeeping(heap, fr.agent_status, success, response_time)
       /\ pc' = [pc EXCEPT ![p] = "idle"]
       /\ frame' = [frame EXCEPT ![p] = NoFrame]
       /\ ev' = [NoEvent EXCEPT !.op = "dispatch_with_failover",
                                !.agent_name = fr.primary_agent,
                                !.outcome = IF success THEN "ok" ELSE "AgentError",
                                !.response = IF success THEN fr.agent_name ELSE NoAgent,
                                !.agent_used = IF success THEN fr.all_agents[fr.idx]
                                               ELSE NoAgent]
       /\ UNCHANGED <<agents, agent_status, load_balancing_strategy, current_agent_index>>

\* the awaited dispatch_request returned (success) or raised (~success)
dispatch_with_failover_resume(p, success, response_time) ==
    LET fr == frame[p]
        h1 == Bookkeeping(heap, fr.agent_status, success, response_time)
    IN /\ pc[p] = "failover"
       /\ ~success => RoomToFail(fr.agent_status)
       /\ heap' = h1
       /\ IF success
          THEN /\ pc' = [pc EXCEPT ![p] = "idle"]
               /\ frame' = [frame EXCEPT ![p] = NoFrame]
               /\ ev' = [NoEvent EXCEPT !.op = "dispatch_with_failover",
                                        !.agent_name = fr.primary_agent,
                                        !.outcome = "ok",
                                        !.response = fr.agent_name,
                                        !.agent_used = fr.all_agents[fr.idx]]
          ELSE FailoverContinue(p, fr, FailoverLoop(fr.all_agents, fr.idx + 1, h1))
       /\ UNCHANGED <<agents, agent_status, load_balancing_strategy, current_agent_index>>

(***************************************************************************)
(* AgentDispatcher.health_check_all_agents: one task per registered agent, *)
(* each resumed on its own when agent.health_check() resolves; the batch   *)
(* returns once it has awaited every task.                                 *)
(***************************************************************************)
HealthOutcomes == {"healthy", "unhealthy", "raises"}

health_check_all_agents(p) ==
    /\ pc[p] = "idle"
    /\ IF agents = {}
       THEN /\ ev' = [NoEvent EXCEPT !.op = "health_check_all_agents",
                                     !.outcome = "ok"]
            /\ UNCHANGED <<pc, frame>>
       ELSE /\ pc' = [pc EXCEPT ![p] = "health"]
            /\ frame' = [frame EXCEPT ![p] =
                            [NoFrame EXCEPT !.tasks = [n \in agents |-> "pending"]]]
            /\ ev' = NoEvent
    /\ UNCHANGED <<agents, agent_status, heap, load_balancing_strategy,
                   current_agent_index>>

\* The task of agent_name resumes after agent.health_check() returned True
\* ("healthy"), returned False ("unhealthy") or raised ("raises").  Looking up
\* agent_status[agent_name] raises KeyError when the name is no longer registered;
\* inside the try block that leads to the except block, whose own lookup raises
\* KeyError out of the task.  A task ends "True", "False" or "KeyError".
_health_check_agent(p, agent_name, outcome) ==
    LET is_healthy == (outcome = "healthy")
        known == agent_name \in DOMAIN agent_status
    IN /\ pc[p] = "health"
       /\ agent_name \in DOMAIN frame[p].tasks
       /\ frame[p].tasks[agent_name] = "pending"
       /\ IF known
          THEN /\ ~is_healthy => RoomToFail(agent_status[agent_name])
               /\ heap' = [heap EXCEPT ![agent_status[agent_name]] =
                                           update_health(@, is_healthy)]
               /\ frame' = [frame EXCEPT ![p].tasks[agent_name] =
                               IF is_healthy THEN "True" ELSE "False"]
          ELSE /\ UNCHANGED heap
               /\ frame' = [frame EXCEPT ![p].tasks[agent_name] = "KeyError"]
       /\ ev' = NoEvent
       /\ UNCHANGED <<agents, agent_status, load_balancing_strategy,
                      current_agent_index, pc>>

\* the loop over health_tasks leaving out the tasks that raised
HealthResults_drops_raised(tasks) ==
    [n \in {m \in DOMAIN tasks : tasks[m] # "KeyError"} |-> tasks[n] = "True"]

\* the loop over health_tasks: a task that raised is recorded as False
HealthResults(tasks) ==
    [n \in DOMAIN tasks |-> IF tasks[n] = "KeyError" THEN FALSE ELSE tasks[n] = "True"]

health_check_all_agents_resume(p) ==
    /\ pc[p] = "health"
    /\ \A n \in DOMAIN frame[p].tasks : frame[p].tasks[n] # "pending"
    /\ pc' = [pc EXCEPT ![p] = "idle"]
    /\ frame' = [frame EXCEPT ![p] = NoFrame]
    /\ ev' = [NoEvent EXCEPT !.op = "health_check_all_agents",
                             !.outcome = "ok",
                             !.health_results = HealthResults(frame[p].tasks)]
    /\ UNCHANGED <<agents, agent_status, heap, load_balancing_strategy,
                   current_agent_index>>

(***************************************************************************)
(* The dispatcher under concurrency: one coroutine dispatching requests    *)
(* (directly or with failover), one running health-check batches, and      *)
(* registrations and unregistrations at any point in between.              *)
(***************************************************************************)
Idle == [st \in {} |-> 0]

\* the agent ids the coordinator creates agents for
AgentIds == {"tech_agent", "creative_agent", "business_agent", "hello_agent"}

\* the locals of a process_query call that is not running
NoCoordFrame == [tasks |-> <<>>, agent_responses |-> <<>>]

\* what process_query hands back: a returned response or a raised error
NoCoordEvent == [outcome |-> "none", response |-> <<>>, called |-> {}]

\* CoordinatorAgent.__init__: one agent instance per agent id, counters at 0
CoordinatorInit ==
    /\ coord_agents = [a \in AgentIds |-> "agent"]
    /\ coord_metrics = [request_count |-> 0, collaboration_count |-> 0,
                        error_count |-> 0]
    /\ coord_pc = "idle"
    /\ coord_frame = NoCoordFrame
    /\ coord_ev = NoCoordEvent
    /\ coord_is_healthy = TRUE

\* the callers (coroutines) of one agent's process_query
AgentCallers == {1, 2}

\* the locals of a BaseAgent.process_query call: how often it has started
\* _process_query_internal, and the breaker state that took the call
NoAgentFrame == [started |-> 0, state |-> "none"]

\* what BaseAgent.process_query hands back: "return" or the error raised,
\* the error that one was raised from, and the starts of
\* _process_query_internal the call made
NoAgentEvent == [caller |-> 0, outcome |-> "none", cause |-> "none", started |-> 0]

\* BaseAgent.__init__: counters at 0, a new CircuitBreaker (closed, no failures)
BaseAgentInit ==
    /\ agent_metrics = [request_count |-> 0, error_count |-> 0]
    /\ circuit_breaker = [current_state |-> "closed", fail_counter |-> 0]
    /\ agent_pc = [c \in AgentCallers |-> "idle"]
    /\ agent_frame = [c \in AgentCallers |-> NoAgentFrame]
    /\ agent_ev = NoAgentEvent
    /\ internal_failures = 0

\* no scores computed yet
NoScores == [tech_agent |-> 0, creative_agent |-> 0, business_agent |-> 0,
             hello_agent |-> 0]

Init ==
    /\ DispatcherInit
    /\ status = AgentStatus(NoAgent)
    /\ hist = <<>>
    /\ query = <<>>
    /\ score_vector = NoScores
    /\ decision = Idle
    /\ CoordinatorInit
    /\ BaseAgentInit
    /\ tornado = TRUE

\* what the dispatcher never touches
restVars == <<status, hist, query, score_vector, decision, coordVars, agentVars>>

Register ==
    /\ UNCHANGED restVars
    /\ \E n \in Names : register_agent(n)
Unregister ==
    /\ UNCHANGED restVars
    /\ \E n \in Names : unregister_agent(n)
Dispatch ==
    /\ UNCHANGED restVars
    /\ \E p \in Callers, n \in Names : dispatch_request(p, n)
DispatchResume ==
    /\ UNCHANGED restVars
    /\ \E p \in Callers, ok \in BOOLEAN, t \in Ticks : dispatch_request_resume(p, ok, t)
Failover ==
    /\ UNCHANGED restVars
    /\ \E p \in Callers, n \in Names, b \in SeqsUpTo(Names, MaxBackups) :
           dispatch_with_failover(p, n, b)
FailoverResume ==
    /\ UNCHANGED restVars
    /\ \E p \in Callers, ok \in BOOLEAN, t \in Ticks :
           dispatch_with_failover_resume(p, ok, t)
HealthCheckAll ==
    /\ UNCHANGED restVars
    /\ \E p \in Monitors : health_check_all_agents(p)
HealthCheckAgent ==
    /\ UNCHANGED restVars
    /\ \E p \in Monitors, n \in Names, o \in HealthOutcomes :
           _health_check_agent(p, n, o)
HealthCheckAllResume ==
    /\ UNCHANGED restVars
    /\ \E p \in Monitors : health_check_all_agents_resume(p)

Next ==
    \/ Register
    \/ Unregister
    \/ Dispatch
    \/ DispatchResume
    \/ Failover
    \/ FailoverResume
    \/ HealthCheckAll
    \/ HealthCheckAgent
    \/ HealthCheckAllResume

Spec == Init /\ [][Next]_vars

(***************************************************************************)
(* Load balancing: a single sequential client.  It makes one call at a     *)
(* time, so nothing else runs while it awaits a dispatch, and only the     *)
(* tasks of its own health-check batch interleave.  Elapsed times vary.    *)
(***************************************************************************)
Client == CHOOSE p \in Callers : TRUE

ClientRegister == pc[Client] = "idle" /\ Register
ClientUnregister == pc[Client] = "idle" /\ Unregister
ClientSetStrategy ==
    /\ pc[Client] = "idle"
    /\ UNCHANGED restVars
    /\ \E s \in StrategyInputs : set_load_balancing_strategy(s)
ClientSelect ==
    /\ pc[Client] = "idle"
    /\ UNCHANGED restVars
    /\ \E c \in SeqsUpTo(Names, MaxCands) : select_agent(c)
ClientDispatch ==
    /\ UNCHANGED restVars
    /\ \E n \in Names : dispatch_request(Client, n)
ClientDispatchResume ==
    /\ UNCHANGED restVars
    /\ \E ok \in BOOLEAN, t \in RespTimes : dispatch_request_resume(Client, ok, t)
ClientHealthCheckAll ==
    /\ UNCHANGED restVars
    /\ health_check_all_agents(Client)
ClientHealthCheckAgent ==
    /\ UNCHANGED restVars
    /\ \E n \in Names, o \in HealthOutcomes : _health_check_agent(Client, n, o)
ClientHealthCheckAllResume ==
    /\ UNCHANGED restVars
    /\ health_check_all_agents_resume(Client)

SelectNext ==
    \/ ClientRegister
    \/ ClientUnregister
    \/ ClientSetStrategy
    \/ ClientSelect
    \/ ClientDispatch
    \/ ClientDispatchResume
    \/ ClientHealthCheckAll
    \/ ClientHealthCheckAgent
    \/ ClientHealthCheckAllResume

SpecSelect == Init /\ [][SelectNext]_vars

(***************************************************************************)
(* Round-robin on its own: a dispatcher with three registered agents whose *)
(* availability is drawn in the initial state and never changes, a cursor  *)
(* that has reached any value, and nothing but select_agent calls.  hist   *)
(* holds the calls made with the current candidate list, in order.         *)
(***************************************************************************)
RobinOrder == <<"a", "b", "c">>
RobinNames == Range(RobinOrder)

RoundRobinInit ==
    /\ agents = RobinNames
    /\ agent_status = [n \in RobinNames |-> CHOOSE i \in DOMAIN RobinOrder : RobinOrder[i] = n]
    /\ \E up \in [DOMAIN RobinOrder -> BOOLEAN] :
           heap = [i \in DOMAIN RobinOrder |->
                      IF up[i] THEN AgentStatus(RobinOrder[i])
                      ELSE [AgentStatus(RobinOrder[i]) EXCEPT
                                !.is_available = FALSE,
                                !.consecutive_failures = FAILURE_LIMIT]]
    /\ load_balancing_strategy = "round_robin"
    /\ current_agent_index \in 0..MaxCursor
    /\ pc = [p \in Procs |-> "idle"]
    /\ frame = [p \in Procs |-> NoFrame]
    /\ ev = NoEvent
    /\ status = AgentStatus(NoAgent)
    /\ hist = <<>>
    /\ query = <<>>
    /\ score_vector = NoScores
    /\ decision = Idle
    /\ CoordinatorInit
    /\ BaseAgentInit
    /\ tornado = TRUE

\* the calls on record were made with this candidate list
SameList(agent_names) == hist # <<>> /\ hist[1].agent_names = agent_names

RoundRobinSelect ==
    /\ UNCHANGED <<status, query, score_vector, decision, coordVars, agentVars>>
    /\ \E agent_names \in SeqsUpTo(RobinNames, Len(RobinOrder)) :
           /\ current_agent_index < MaxRobin
           /\ SameList(agent_names) => Len(hist) < MaxSelects
           /\ select_agent_call(agent_names)
           /\ hist' = (IF SameList(agent_names) THEN hist ELSE <<>>)
                         \o <<[agent_names |-> agent_names,
                               agent_used |-> ev'.agent_used,
                               index |-> current_agent_index]>>

SpecRoundRobin == RoundRobinInit /\ [][RoundRobinSelect]_vars

(***************************************************************************)
(* A stand-alone AgentStatus driven by update_health calls.                *)
(***************************************************************************)
StatusInit ==
    /\ DispatcherInit
    /\ status = AgentStatus(NoAgent)
    /\ hist = <<>>
    /\ query = <<>>
    /\ score_vector = NoScores
    /\ decision = Idle
    /\ CoordinatorInit
    /\ BaseAgentInit
    /\ tornado = TRUE

StatusUpdateHealth ==
    \E is_healthy \in BOOLEAN :
        /\ Len(hist) < MaxHist
        /\ status' = update_health(status, is_healthy)
        /\ hist' = Append(hist, is_healthy)
        /\ UNCHANGED <<dispatcherVars, query, score_vector, decision, coordVars, agentVars>>

SpecStatus == StatusInit /\ [][StatusUpdateHealth]_vars

(***************************************************************************)
(* RoutingLogic.  A query is a sequence of lower-case words separated by   *)
(* single spaces.  A keyword pattern \b(?:k1|k2|...)\b is the sequence of  *)
(* its alternatives, each a sequence of words; on such a query an          *)
(* alternative matches whole words only ("c++" and "ci/cd" match none).    *)
(* Scores are kept in tenths: 0.5 is 5, the cap 10.0 is 100.               *)
(***************************************************************************)
Words == {"the", "this", "debug", "python", "design", "story", "market", "hello",
          "how", "to"}

\* the bonus words that occur as substrings of each word of a query
BonusIn ==
    [the |-> {}, this |-> {"hi"}, debug |-> {"debug"}, python |-> {},
     design |-> {"design"}, story |-> {}, market |-> {"market"},
     hello |-> {"hello"}, how |-> {"how"}, to |-> {}, do |-> {}, i |-> {},
     code |-> {}]

tech_keywords ==
    << <<<<"python">>, <<"javascript">>, <<"java">>, <<"c++">>, <<"go">>, <<"rust">>,
          <<"typescript">>, <<"react">>, <<"angular">>, <<"vue">>, <<"django">>,
          <<"flask">>, <<"fastapi">>>>,
       <<<<"debug">>, <<"code">>, <<"programming">>, <<"development">>, <<"software">>,
          <<"api">>, <<"database">>, <<"sql">>, <<"nosql">>, <<"docker">>,
          <<"kubernetes">>>>,
       <<<<"error">>, <<"bug">>, <<"issue">>, <<"problem">>, <<"fix">>, <<"optimize">>,
          <<"performance">>, <<"security">>, <<"testing">>, <<"deployment">>>>,
       <<<<"algorithm">>, <<"data", "structure">>, <<"design", "pattern">>,
          <<"architecture">>, <<"framework">>, <<"library">>, <<"package">>>>,
       <<<<"git">>, <<"version", "control">>, <<"ci/cd">>, <<"devops">>, <<"cloud">>,
          <<"aws">>, <<"gcp">>, <<"azure">>, <<"server">>, <<"client">>>> >>

creative_keywords ==
    << <<<<"story">>, <<"creative">>, <<"writing">>, <<"art">>, <<"design">>,
          <<"brainstorm">>, <<"idea">>, <<"concept">>, <<"character">>, <<"plot">>,
          <<"narrative">>>>,
       <<<<"poem">>, <<"poetry">>, <<"script">>, <<"screenplay">>, <<"novel">>,
          <<"fiction">>, <<"creative", "writing">>, <<"content">>, <<"copy">>>>,
       <<<<"inspiration">>, <<"imagination">>, <<"artistic">>, <<"visual">>, <<"brand">>,
          <<"marketing">>, <<"advertising">>, <<"social", "media">>>>,
       <<<<"mood", "board">>, <<"design", "thinking">>, <<"user", "experience">>,
          <<"portfolio">>, <<"collaboration">>, <<"innovation">>>>,
       <<<<"storytelling">>, <<"narrative">>, <<"character", "development">>,
          <<"world", "building">>, <<"creative", "process">>>> >>

business_keywords ==
    << <<<<"business">>, <<"strategy">>, <<"market">>, <<"financial">>, <<"investment">>,
          <<"revenue">>, <<"profit">>, <<"cost">>, <<"budget">>, <<"planning">>>>,
       <<<<"company">>, <<"startup">>, <<"enterprise">>, <<"corporate">>,
          <<"management">>, <<"leadership">>, <<"career">>, <<"professional">>>>,
       <<<<"analysis">>, <<"research">>, <<"competitive">>, <<"industry">>, <<"trend">>,
          <<"opportunity">>, <<"risk">>, <<"compliance">>>>,
       <<<<"sales">>, <<"marketing">>, <<"customer">>, <<"product">>, <<"service">>,
          <<"operations">>, <<"efficiency">>, <<"optimization">>>>,
       <<<<"funding">>, <<"capital">>, <<"investment">>, <<"portfolio">>, <<"roi">>,
          <<"kpi">>, <<"performance">>, <<"growth">>, <<"scaling">>>> >>

general_keywords ==
    << <<<<"hello">>, <<"hi">>, <<"greeting">>, <<"welcome">>, <<"help">>, <<"assist">>,
          <<"guide">>, <<"explain">>, <<"overview">>, <<"introduction">>>>,
       <<<<"how", "to">>, <<"what", "is">>, <<"when">>, <<"where">>, <<"why">>,
          <<"who">>, <<"which">>, <<"general">>, <<"basic">>, <<"simple">>>>,
       <<<<"thank">>, <<"thanks">>, <<"appreciate">>, <<"good">>, <<"great">>,
          <<"nice">>, <<"wonderful">>, <<"excellent">>, <<"awesome">>>>,
       <<<<"question">>, <<"query">>, <<"information">>, <<"knowledge">>, <<"fact">>,
          <<"tip">>, <<"advice">>, <<"suggestion">>>> >>


tech_question_words ==
    <<<<"how", "to">>, <<"debug">>, <<"fix">>, <<"implement">>, <<"optimize">>,
      <<"deploy">>>>
creative_question_words ==
    <<<<"create">>, <<"design">>, <<"write">>, <<"brainstorm">>, <<"develop">>,
      <<"imagine">>>>
business_question_words ==
    <<<<"strategy">>, <<"market">>, <<"financial">>, <<"business">>, <<"career">>,
      <<"investment">>>>
general_question_words ==
    <<<<"hello">>, <<"hi">>, <<"help">>, <<"what">>, <<"how">>, <<"when">>,
      <<"where">>, <<"why">>>>

SCORE_CAP == 100
KEYWORD_WEIGHT == 5
BONUS_WEIGHT == 10
GENERAL_KEYWORD_WEIGHT == 3
GENERAL_BONUS_WEIGHT == 5

Min(x, y) == IF x <= y THEN x ELSE y

\* alternative alt matches the words of q from position i on
MatchesAt(alt, q, i) ==
    /\ i + Len(alt) - 1 <= Len(q)
    /\ \A k \in 1..Len(alt) : q[i + k - 1] = alt[k]

\* length of the match of pattern at position i: that of its first alternative
\* that matches there, 0 when none does
MatchLen(pattern, q, i) ==
    IF \E a \in 1..Len(pattern) : MatchesAt(pattern[a], q, i)
    THEN Len(pattern[CHOOSE a \in 1..Len(pattern) :
                        /\ MatchesAt(pattern[a], q, i)
                        /\ \A b \in 1..(a - 1) : ~MatchesAt(pattern[b], q, i)])
    ELSE 0

\* len(pattern.findall(query)): non-overlapping matches, scanning from position i
RECURSIVE FindAll(_, _, _)
FindAll(pattern, q, i) ==
    IF i > Len(q) THEN 0
    ELSE IF MatchLen(pattern, q, i) = 0 THEN FindAll(pattern, q, i + 1)
    ELSE 1 + FindAll(pattern, q, i + MatchLen(pattern, q, i))

RECURSIVE SumMatches(_, _, _)
SumMatches(patterns, q, k) ==
    IF k = 0 THEN 0
    ELSE FindAll(patterns[k], q, 1) + SumMatches(patterns, q, k - 1)

\* word.lower() in query.lower(): a substring test on the joined query
InQuery(word, q) ==
    IF Len(word) = 1
    THEN \E i \in 1..Len(q) : word[1] \in BonusIn[q[i]]
    ELSE \E i \in 1..(Len(q) - 1) : q[i] = word[1] /\ q[i + 1] = word[2]

BonusCount(question_words, q) ==
    Cardinality({k \in 1..Len(question_words) : InQuery(question_words[k], q)})

_calculate_tech_score(q) ==
    Min(KEYWORD_WEIGHT * SumMatches(tech_keywords, q, Len(tech_keywords))
        + BONUS_WEIGHT * BonusCount(tech_question_words, q), SCORE_CAP)

_calculate_creative_score(q) ==
    Min(KEYWORD_WEIGHT * SumMatches(creative_keywords, q, Len(creative_keywords))
        + BONUS_WEIGHT * BonusCount(creative_question_words, q), SCORE_CAP)

_calculate_business_score(q) ==
    Min(KEYWORD_WEIGHT * SumMatches(business_keywords, q, Len(business_keywords))
        + BONUS_WEIGHT * BonusCount(business_question_words, q), SCORE_CAP)

_calculate_general_score(q) ==
    Min(GENERAL_KEYWORD_WEIGHT * SumMatches(general_keywords, q, Len(general_keywords))
        + GENERAL_BONUS_WEIGHT * BonusCount(general_question_words, q), SCORE_CAP)

\* the keys of the scores dict, in insertion order
AgentOrder == <<"tech_agent", "creative_agent", "business_agent", "hello_agent">>

Scores(q) ==
    [tech_agent |-> _calculate_tech_score(q),
     creative_agent |-> _calculate_creative_score(q),
     business_agent |-> _calculate_business_score(q),
     hello_agent |-> _calculate_general_score(q)]

\* a max() that keeps the last of several largest scores
PrimaryAgent_last_max(scores) ==
    AgentOrder[CHOOSE i \in 1..4 :
                  /\ \A j \in 1..4 : scores[AgentOrder[j]] <= scores[AgentOrder[i]]
                  /\ \A j \in (i + 1)..4 : scores[AgentOrder[j]] < scores[AgentOrder[i]]]

\* max(scores, key=scores.get): the first key, in dict order, with the largest score
PrimaryAgent(scores) ==
    AgentOrder[CHOOSE i \in 1..4 :
                  /\ \A j \in 1..4 : scores[AgentOrder[j]] <= scores[AgentOrder[i]]
                  /\ \A j \in 1..(i - 1) : scores[AgentOrder[j]] < scores[AgentOrder[i]]]

\* a threshold test without "and score < max_score"
_determine_secondary_agents_with_ties(scores, max_score) ==
    LET secondary(agent) == 10 * scores[agent] >= 7 * max_score
    IN SelectSeq(AgentOrder, secondary)

\* score >= max_score * 0.7 and score < max_score, in dict order.  For scores
\* that are sums of 0.3's and 0.5's up to 10.0, the double max_score * 0.7 is
\* the double of the decimal product, so the test is the one on the tenths.
_determine_secondary_agents(scores, max_score) ==
    LET secondary(agent) == 10 * scores[agent] >= 7 * max_score
                            /\ scores[agent] < max_score
    IN SelectSeq(AgentOrder, secondary)

\* The values of max_score (in tenths, up to the cap) whose double product
\* max_score * 0.8 is the next double above the decimal product: 1.5 * 0.8 is
\* 1.2000000000000002, 3.0 * 0.8 is 2.4000000000000004, and so on.
RoundsUp80 == {15, 30, 35, 60, 70, 85, 95}

\* score >= max_score * 0.8 on doubles: a score that is exactly eight tenths
\* of such a max_score falls below the rounded-up product.
HighScore(score, max_score) ==
    IF max_score \in RoundsUp80 THEN 10 * score > 8 * max_score
    ELSE 10 * score >= 8 * max_score

_determine_query_type(scores, max_score) ==
    LET high_score_count ==
            Cardinality({i \in 1..4 : HighScore(scores[AgentOrder[i]], max_score)})
    IN IF high_score_count > 1 THEN "COLLABORATION"
       ELSE IF scores["tech_agent"] = max_score THEN "TECHNICAL"
       ELSE IF scores["creative_agent"] = max_score THEN "CREATIVE"
       ELSE IF scores["business_agent"] = max_score THEN "BUSINESS"
       ELSE "GENERAL"

\* a dominance that is not doubled
_calculate_confidence_undoubled(scores, max_score) ==
    LET total_score == scores["tech_agent"] + scores["creative_agent"]
                       + scores["business_agent"] + scores["hello_agent"]
        g == GCD(max_score, total_score)
    IN IF max_score = 0 THEN [num |-> 0, den |-> 1]
       ELSE [num |-> max_score \div g, den |-> total_score \div g]

\* min(max_score / total_score * 2, 1.0), as a fraction in lowest terms
_calculate_confidence(scores, max_score) ==
    LET total_score == scores["tech_agent"] + scores["creative_agent"]
                       + scores["business_agent"] + scores["hello_agent"]
        g == GCD(2 * max_score, total_score)
    IN IF max_score = 0 THEN [num |-> 0, den |-> 1]
       ELSE IF 2 * max_score >= total_score THEN [num |-> 1, den |-> 1]
       ELSE [num |-> (2 * max_score) \div g, den |-> total_score \div g]

\* what analyze_query makes of the scores it computed
RoutingDecision(scores) ==
    LET primary_agent == PrimaryAgent(scores)
        max_score == scores[primary_agent]
    IN [primary_agent |-> primary_agent,
        secondary_agents |-> _determine_secondary_agents(scores, max_score),
        confidence |-> _calculate_confidence(scores, max_score),
        query_type |-> _determine_query_type(scores, max_score),
        scores |-> scores]

analyze_query(q) == RoutingDecision(Scores(q))

Queries == SeqsUpTo(Words, MaxQueryLen)

RoutingInit ==
    /\ DispatcherInit
    /\ status = AgentStatus(NoAgent)
    /\ hist = <<>>
    /\ query \in Queries
    /\ score_vector = NoScores
    /\ decision = Idle
    /\ CoordinatorInit
    /\ BaseAgentInit
    /\ tornado = TRUE

AnalyzeQuery ==
    /\ decision = Idle
    /\ decision' = analyze_query(query)
    /\ UNCHANGED <<dispatcherVars, status, hist, query, score_vector, coordVars, agentVars>>

SpecRouting == RoutingInit /\ [][AnalyzeQuery]_vars

(***************************************************************************)
(* The routing decision on score vectors.  A tech, creative or business    *)
(* score is a number of halves (0.5 a keyword match, 1.0 a bonus word); a  *)
(* general score is a sum of 0.3's (keyword matches) and 0.5's (bonus      *)
(* words).  Scores are kept in tenths.  Up to MaxScore no comparison of    *)
(* the routing code depends on the order in which a double was summed.     *)
(***************************************************************************)
HalfScores == {s \in 0..MaxScore : s % 5 = 0}

GeneralScores == {s \in 0..MaxScore :
                    \E matches \in 0..MaxScore, bonus \in 0..Len(general_question_words) :
                        s = GENERAL_KEYWORD_WEIGHT * matches + GENERAL_BONUS_WEIGHT * bonus}

ScoreVectors ==
    [tech_agent : HalfScores, creative_agent : HalfScores,
     business_agent : HalfScores, hello_agent : GeneralScores]

ScoresInit ==
    /\ DispatcherInit
    /\ status = AgentStatus(NoAgent)
    /\ hist = <<>>
    /\ query = <<>>
    /\ score_vector \in ScoreVectors
    /\ decision = Idle
    /\ CoordinatorInit
    /\ BaseAgentInit
    /\ tornado = TRUE

RouteScores ==
    /\ decision = Idle
    /\ decision' = RoutingDecision(score_vector)
    /\ UNCHANGED <<dispatcherVars, status, hist, query, score_vector, coordVars, agentVars>>

SpecScores == ScoresInit /\ [][RouteScores]_vars

(***************************************************************************)
(* CoordinatorAgent.  A string is a sequence of tokens; a query is the     *)
(* sequence of its words.  process_query runs up to its first await in one *)
(* step; each completion of an awaited agent call is a further step, and   *)
(* register_custom_agent may run in between.                               *)
(***************************************************************************)
\* what register_custom_agent may be handed as agent_instance: an agent
\* object, or None (the parameter is typed Any)
AgentInstances == {"agent", "None"}

\* self.agents.get(agent_name) is truthy
HasAgent(agent_name) == coord_agents[agent_name] # "None"

\* The identifier each agent class puts in front of its responses.  The
\* emoji of an identifier is written as the code points the source file
\* holds for it: tech_agent.py and hello_agent.py hold their emoji as four
\* characters (its UTF-8 bytes read as cp1252), creative_agent.py and
\* business_agent.py hold the emoji itself.
AgentPrefix ==
    [tech_agent |-> "[F0 178 2019 BB] Tech Agent:",
     creative_agent |-> "[1F3A8] Creative Agent:",
     business_agent |-> "[1F4BC] Business Agent:",
     hello_agent |-> "[F0 178 2018 2039] Hello Agent:"]

\* the identifiers _combine_agent_responses removes, as coordinator_agent.py
\* holds them
KnownPrefixes ==
    <<"[F0 178 2019 BB] Tech Agent:", "[F0 178 17D A8] Creative Agent:",
      "[F0 178 2019 BC] Business Agent:", "[F0 178 2018 2039] Hello Agent:">>

\* 'How do I debug this Python code?', lower-cased, as words
DebugQuery == <<"how", "do", "i", "debug", "this", "python", "code">>

\* the keywords the agents look for that occur as substrings of each word
KeywordIn ==
    [python |-> {"python"}, design |-> {"design"}, hello |-> {"hello"},
     how |-> {}, do |-> {}, i |-> {}, debug |-> {"debug"}, this |-> {"hi"},
     code |-> {"code"}]

\* keyword in query_lower
Mentions(keyword, q) == \E i \in 1..Len(q) : keyword \in KeywordIn[q[i]]

\* if not response.startswith(prefix): response = f"{prefix} {response}",
\* left out
EnsurePrefix_never(agent_name, response) == response

\* if not response.startswith(prefix): response = f"{prefix} {response}"
EnsurePrefix(agent_name, response) ==
    IF response # <<>> /\ response[1] = AgentPrefix[agent_name] THEN response
    ELSE <<AgentPrefix[agent_name]>> \o response

\* the _process_query_internal of the four agent classes: a canned answer
\* chosen by the keywords of the query, behind the agent's identifier
_process_query_internal(agent_name, q) ==
    EnsurePrefix(agent_name,
        CASE agent_name = "tech_agent" ->
               IF Mentions("debug", q) \/ Mentions("debugging", q)
               THEN <<"I can help you with debugging!">>
               ELSE IF Mentions("python", q) THEN <<"Python is a great language!">>
               ELSE IF Mentions("code", q)
               THEN <<"I'm here to help with your coding questions!">>
               ELSE <<"I'm your Tech Agent">>
          [] agent_name = "creative_agent" ->
               IF Mentions("story", q) \/ Mentions("creative", q)
               THEN <<"I love creative storytelling!">>
               ELSE IF Mentions("brainstorm", q) \/ Mentions("ideas", q)
               THEN <<"Let's brainstorm together!">>
               ELSE IF Mentions("art", q) \/ Mentions("design", q)
               THEN <<"Art and design are wonderful creative outlets!">>
               ELSE <<"I'm your Creative Agent">>
          [] agent_name = "business_agent" ->
               IF Mentions("strategy", q) \/ Mentions("business", q)
               THEN <<"I can help with business strategy!">>
               ELSE IF Mentions("startup", q) \/ Mentions("entrepreneur", q)
               THEN <<"Startups are exciting!">>
               ELSE IF Mentions("analysis", q) \/ Mentions("market", q)
               THEN <<"Business analysis is crucial!">>
               ELSE <<"I'm your Business Agent">>
          [] OTHER ->
               IF Mentions("hello", q) \/ Mentions("hi", q)
               THEN <<"Hello! I'm your friendly Hello Agent.">>
               ELSE IF Mentions("debug", q) \/ Mentions("debugging", q)
               THEN <<"I see you need help with debugging!">>
               ELSE IF Mentions("help", q) THEN <<"I'm here to help!">>
               ELSE <<"Hello! I'm here to help you.">>)

\* what the awaited agent.process_query returns for the query in progress
AgentResponse(agent_name) == _process_query_internal(agent_name, query)

\* what agent.process_query raises
AgentErrors == {"AgentError", "AgentTimeoutError", "AgentUnavailableError"}

\* how an awaited agent call may end
AgentOutcomes == {"response"} \cup AgentErrors

\* how "await task" may end: as the agent call does, or with the
\* CancelledError of a task that was cancelled
TaskOutcomes == AgentOutcomes \cup {"CancelledError"}

\* str(e) of the error an agent raised
ErrorText(agent_name, e) ==
    CASE e = "AgentTimeoutError" -> <<"Agent", agent_name, "request timed out">>
      [] e = "AgentUnavailableError" -> <<"Agent", agent_name, "is temporarily unavailable">>
      [] OTHER -> <<"Agent", agent_name, "processing failed:">>

\* agent_name.replace('_', ' ').title()
TitleCase ==
    [tech_agent |-> "Tech Agent", creative_agent |-> "Creative Agent",
     business_agent |-> "Business Agent", hello_agent |-> "Hello Agent"]

NoResponseMessage ==
    <<"Multi-Agent Collaboration:", "No agents were able to respond to your query.">>

\* the response without the agent identifier it starts with, if any
CleanResponse(response) ==
    IF Len(response) > 0 /\ \E k \in DOMAIN KnownPrefixes : response[1] = KnownPrefixes[k]
    THEN Tail(response)
    ELSE response

\* one labelled section per entry of agent_responses, in insertion order
RECURSIVE Sections(_)
Sections(agent_responses) ==
    IF agent_responses = <<>> THEN <<>>
    ELSE <<TitleCase[Head(agent_responses).agent_name]>>
         \o CleanResponse(Head(agent_responses).response)
         \o Sections(Tail(agent_responses))

_combine_agent_responses(agent_responses, original_query) ==
    IF agent_responses = <<>> THEN NoResponseMessage
    ELSE <<"Multi-Agent Collaboration:", "Original Query:">> \o original_query
         \o <<"Combined Expertise:">> \o Sections(agent_responses)
         \o <<"Summary:">>

\* agent_responses[agent_name] = response, on a dict kept in insertion order
ResponsesPut(agent_responses, agent_name, response) ==
    IF \E i \in DOMAIN agent_responses : agent_responses[i].agent_name = agent_name
    THEN [i \in DOMAIN agent_responses |->
             IF agent_responses[i].agent_name = agent_name
             THEN [agent_name |-> agent_name, response |-> response]
             ELSE agent_responses[i]]
    ELSE Append(agent_responses, [agent_name |-> agent_name, response |-> response])

Coordinator_update_metrics(success, collaboration) ==
    [request_count |-> coord_metrics.request_count + 1,
     collaboration_count |-> coord_metrics.collaboration_count
                             + (IF collaboration THEN 1 ELSE 0),
     error_count |-> coord_metrics.error_count + (IF success THEN 0 ELSE 1)]

\* process_query returns response
CoordinatorReturn(response, called, collaboration) ==
    /\ coord_metrics' = Coordinator_update_metrics(TRUE, collaboration)
    /\ coord_ev' = [outcome |-> "return", response |-> response, called |-> called]
    /\ coord_pc' = "idle"
    /\ coord_frame' = NoCoordFrame

\* the except clause of process_query: count the failure, raise CoordinatorError
CoordinatorRaise(message, called) ==
    /\ coord_metrics' = Coordinator_update_metrics(FALSE, FALSE)
    /\ coord_ev' = [outcome |-> "CoordinatorError",
                    response |-> <<"Query processing failed:">> \o message,
                    called |-> called]
    /\ coord_pc' = "idle"
    /\ coord_frame' = NoCoordFrame

\* CancelledError is not an Exception: it passes the except clauses of
\* _handle_collaboration and of process_query, and no metrics are updated
CoordinatorCancelled(called) ==
    /\ coord_ev' = [outcome |-> "CancelledError", response |-> <<>>, called |-> called]
    /\ coord_pc' = "idle"
    /\ coord_frame' = NoCoordFrame
    /\ UNCHANGED coord_metrics

\* a _handle_single_agent that calls the agent without looking it up
_handle_single_agent_unchecked(routing_decision) ==
    /\ coord_pc' = "single"
    /\ coord_frame' = [tasks |-> <<routing_decision.primary_agent>>,
                       agent_responses |-> <<>>]
    /\ coord_ev' = NoCoordEvent
    /\ UNCHANGED coord_metrics

_handle_single_agent(routing_decision) ==
    LET agent_name == routing_decision.primary_agent
    IN IF ~HasAgent(agent_name)
       THEN CoordinatorRaise(<<"Agent", agent_name, "not found">>, {})
       ELSE /\ coord_pc' = "single"
            /\ coord_frame' = [tasks |-> <<agent_name>>, agent_responses |-> <<>>]
            /\ coord_ev' = NoCoordEvent
            /\ UNCHANGED coord_metrics

\* [routing_decision.primary_agent] + routing_decision.secondary_agents
ParticipatingAgents(routing_decision) ==
    <<routing_decision.primary_agent>> \o routing_decision.secondary_agents

_handle_collaboration(original_query, routing_decision) ==
    LET tasks == SelectSeq(ParticipatingAgents(routing_decision), HasAgent)
    IN IF tasks = <<>>
       THEN CoordinatorReturn(_combine_agent_responses(<<>>, original_query), {}, TRUE)
       ELSE /\ coord_pc' = "collaboration"
            /\ coord_frame' = [tasks |-> tasks, agent_responses |-> <<>>]
            /\ coord_ev' = NoCoordEvent
            /\ UNCHANGED coord_metrics

\* the words of the queries handed to the coordinator
CoordinatorWords == {"python", "design", "hello"}
CoordinatorQueries == SeqsUpTo(CoordinatorWords, MaxQueryLen) \cup {DebugQuery}

\* self.routing_logic.analyze_query, tabulated on these queries (@@ makes TLC
\* compute the table once)
routing_logic == [q \in CoordinatorQueries |-> analyze_query(q)] @@ Idle

Coordinator_process_query(q) ==
    /\ coord_pc = "idle"
    /\ coord_metrics.request_count < MaxQueries
    /\ query' = q
    /\ decision' = routing_logic[q]
    /\ IF routing_logic[q].query_type = "COLLABORATION"
       THEN _handle_collaboration(q, routing_logic[q])
       ELSE _handle_single_agent(routing_logic[q])
    /\ UNCHANGED coord_agents

\* the awaited agent.process_query of _handle_single_agent has ended
_handle_single_agent_resume(outcome) ==
    /\ coord_pc = "single"
    /\ LET agent_name == coord_frame.tasks[1]
       IN IF outcome = "response"
          THEN CoordinatorReturn(AgentResponse(agent_name), {agent_name}, FALSE)
          ELSE IF outcome = "CancelledError" THEN CoordinatorCancelled({agent_name})
          ELSE CoordinatorRaise(ErrorText(agent_name, outcome), {agent_name})
    /\ UNCHANGED <<coord_agents, query, decision>>

\* a wait loop whose except clause lets the error through
_handle_collaboration_resume_uncaught(outcome) ==
    /\ coord_pc = "collaboration"
    /\ LET agent_name == coord_frame.tasks[Len(coord_frame.agent_responses) + 1]
           agent_responses == ResponsesPut(coord_frame.agent_responses, agent_name,
                                           AgentResponse(agent_name))
       IN IF outcome # "response"
          THEN CoordinatorRaise(ErrorText(agent_name, outcome), Range(coord_frame.tasks))
          ELSE IF Len(agent_responses) = Len(coord_frame.tasks)
          THEN CoordinatorReturn(_combine_agent_responses(agent_responses, query),
                                 Range(coord_frame.tasks), TRUE)
          ELSE /\ coord_frame' = [coord_frame EXCEPT !.agent_responses = agent_responses]
               /\ coord_ev' = NoCoordEvent
               /\ UNCHANGED <<coord_pc, coord_metrics>>
    /\ UNCHANGED <<coord_agents, query, decision>>

\* the next awaited task of _handle_collaboration has ended: its response,
\* or the placeholder for its error, is stored; after the last task the
\* responses are combined and process_query returns.  A cancelled task
\* ends the whole call.
_handle_collaboration_resume(outcome) ==
    /\ coord_pc = "collaboration"
    /\ LET agent_name == coord_frame.tasks[Len(coord_frame.agent_responses) + 1]
           response == IF outcome = "response" THEN AgentResponse(agent_name)
                       ELSE <<"Agent", agent_name, "unavailable:">>
                            \o ErrorText(agent_name, outcome)
           agent_responses == ResponsesPut(coord_frame.agent_responses, agent_name,
                                           response)
       IN IF outcome = "CancelledError"
          THEN CoordinatorCancelled(Range(coord_frame.tasks))
          ELSE IF Len(agent_responses) = Len(coord_frame.tasks)
          THEN CoordinatorReturn(_combine_agent_responses(agent_responses, query),
                                 Range(coord_frame.tasks), TRUE)
          ELSE /\ coord_frame' = [coord_frame EXCEPT !.agent_responses = agent_responses]
               /\ coord_ev' = NoCoordEvent
               /\ UNCHANGED <<coord_pc, coord_metrics>>
    /\ UNCHANGED <<coord_agents, query, decision>>

register_custom_agent(agent_name, agent_instance) ==
    /\ coord_agents' = [coord_agents EXCEPT ![agent_name] = agent_instance]
    /\ coord_ev' = NoCoordEvent
    /\ UNCHANGED <<coord_metrics, coord_pc, coord_frame, query, decision>>

coordRestVars == <<dispatcherVars, status, hist, score_vector, agentVars,
                   coord_is_healthy>>

ProcessQuery ==
    /\ UNCHANGED coordRestVars
    /\ \E q \in CoordinatorQueries : Coordinator_process_query(q)
HandleSingleAgentResume ==
    /\ UNCHANGED coordRestVars
    /\ \E outcome \in TaskOutcomes : _handle_single_agent_resume(outcome)
HandleCollaborationResume ==
    /\ UNCHANGED coordRestVars
    /\ \E outcome \in TaskOutcomes : _handle_collaboration_resume(outcome)
RegisterCustomAgent ==
    /\ UNCHANGED coordRestVars
    /\ \E agent_name \in AgentIds, agent_instance \in AgentInstances :
           register_custom_agent(agent_name, agent_instance)

CoordinatorNext ==
    \/ ProcessQuery
    \/ HandleSingleAgentResume
    \/ HandleCollaborationResume
    \/ RegisterCustomAgent

SpecCoordinator == Init /\ [][CoordinatorNext]_vars

(***************************************************************************)
(* Agent lookups: the dispatcher and the coordinator, each with one        *)
(* sequential client.  CoordinatorAgent builds an AgentDispatcher but      *)
(* process_query never uses it, and the dispatcher never reads the         *)
(* coordinator's agents: the two share no state, and a behaviour here      *)
(* exercises the one or the other.                                         *)
(***************************************************************************)
DispatcherUntouched == agents = {} /\ heap = <<>> /\ ev = NoEvent

CoordinatorUntouched ==
    /\ coord_agents = [a \in AgentIds |-> "agent"]
    /\ coord_metrics.request_count = 0
    /\ coord_pc = "idle"
    /\ decision = Idle

LookupRegister == CoordinatorUntouched /\ ClientRegister
LookupUnregister == CoordinatorUntouched /\ ClientUnregister
LookupDispatch == CoordinatorUntouched /\ ClientDispatch
LookupDispatchResume == CoordinatorUntouched /\ ClientDispatchResume
LookupFailover ==
    /\ CoordinatorUntouched
    /\ UNCHANGED restVars
    /\ \E n \in Names, b \in SeqsUpTo(Names, MaxBackups) :
           dispatch_with_failover(Client, n, b)
LookupFailoverResume ==
    /\ CoordinatorUntouched
    /\ UNCHANGED restVars
    /\ \E ok \in BOOLEAN, t \in Ticks : dispatch_with_failover_resume(Client, ok, t)
LookupProcessQuery == DispatcherUntouched /\ ProcessQuery
LookupHandleSingleAgentResume == DispatcherUntouched /\ HandleSingleAgentResume
LookupHandleCollaborationResume == DispatcherUntouched /\ HandleCollaborationResume
LookupRegisterCustomAgent == DispatcherUntouched /\ RegisterCustomAgent

LookupNext ==
    \/ LookupRegister
    \/ LookupUnregister
    \/ LookupDispatch
    \/ LookupDispatchResume
    \/ LookupFailover
    \/ LookupFailoverResume
    \/ LookupProcessQuery
    \/ LookupHandleSingleAgentResume
    \/ LookupHandleCollaborationResume
    \/ LookupRegisterCustomAgent

SpecLookup == Init /\ [][LookupNext]_vars

(***************************************************************************)
(* BaseAgent.process_query on one agent, called from several coroutines.   *)
(* A call runs up to its await of circuit_breaker.call_async in one step;  *)
(* the end of the awaited _process_query_with_timeout is a second step.    *)
(* Logging calls are taken to return.  The circuit breaker is pybreaker's: *)
(* the state object that takes the call handles its end, as a failure when *)
(* the call raised an exception that no class of the exclude list covers,  *)
(* as a success otherwise; the breaker is created with exclude=[Exception].*)
(* call_async needs tornado and raises NameError without it; the breaker's *)
(* state is also set from outside, by its open(), half_open() and close()  *)
(* methods.                                                                *)
(***************************************************************************)
RETRY_ATTEMPTS == 3

\* CircuitBreakerConfig.failure_threshold, the breaker's fail_max
FAILURE_THRESHOLD == 5

BreakerStates == {"closed", "open", "half-open"}

\* how the awaited _process_query_with_timeout may end: _process_query_internal
\* returns in time, runs past config.timeout, or raises
InternalOutcomes == {"response", "timeout", "error"}

\* metrics that count a request only when it succeeded
_update_metrics_successes_only(metrics, success) ==
    [request_count |-> metrics.request_count + (IF success THEN 1 ELSE 0),
     error_count |-> metrics.error_count + (IF success THEN 0 ELSE 1)]

_update_metrics(metrics, success) ==
    [request_count |-> metrics.request_count + 1,
     error_count |-> metrics.error_count + (IF success THEN 0 ELSE 1)]

\* process_query calls begun so far: those counted and those in flight
AgentCalls ==
    agent_metrics.request_count + Cardinality({c \in AgentCallers : agent_pc[c] # "idle"})

\* an except clause of process_query: count the failure, raise error from cause
AgentRaise(c, error, cause) ==
    /\ agent_metrics' = _update_metrics(agent_metrics, FALSE)
    /\ agent_ev' = [caller |-> c, outcome |-> error, cause |-> cause,
                    started |-> agent_frame[c].started]
    /\ agent_pc' = [agent_pc EXCEPT ![c] = "idle"]
    /\ agent_frame' = [agent_frame EXCEPT ![c] = NoAgentFrame]

\* the success path of process_query
AgentReturn(c) ==
    /\ agent_metrics' = _update_metrics(agent_metrics, TRUE)
    /\ agent_ev' = [caller |-> c, outcome |-> "return", cause |-> "none",
                    started |-> agent_frame[c].started]
    /\ agent_pc' = [agent_pc EXCEPT ![c] = "idle"]
    /\ agent_frame' = [agent_frame EXCEPT ![c] = NoAgentFrame]

\* what the awaited call raises for each way it may fail: asyncio.TimeoutError
\* from wait_for, an Exception from _process_query_internal
Raised == [timeout |-> "TimeoutError", error |-> "Exception"]

\* the exception classes that are Exception or derive from it
ExceptionClasses == {"Exception", "TimeoutError"}

\* the exclude list of _create_circuit_breaker: exclude=[Exception]
exclude == ExceptionClasses

\* CircuitBreaker.is_system_error: does the exception count as a failure
is_system_error(exception) == exception \notin exclude

\* the breaker after a guarded call it counts as a success: the failure
\* counter is reset, and a call taken in the half-open state closes it
_handle_success(breaker, state) ==
    [current_state |-> IF state = "half-open" THEN "closed"
                       ELSE breaker.current_state,
     fail_counter |-> 0]

\* the breaker after a guarded call that raised: a failure is counted, the
\* breaker opens at fail_max failures and when the call was taken half-open
_handle_error(breaker, state, exception) ==
    IF is_system_error(exception)
    THEN [current_state |-> IF \/ breaker.fail_counter + 1 >= FAILURE_THRESHOLD
                               \/ state = "half-open"
                            THEN "open"
                            ELSE breaker.current_state,
          fail_counter |-> breaker.fail_counter + 1]
    ELSE _handle_success(breaker, state)

\* The call up to its first await.  The AgentUnavailableError for an open
\* breaker is raised inside the try block, and so is the NameError of
\* call_async: "except Exception" catches either and raises AgentError.
BaseAgent_process_query(c) ==
    /\ agent_pc[c] = "idle"
    /\ AgentCalls < MaxAgentCalls
    /\ IF circuit_breaker.current_state = "open"
       THEN /\ AgentRaise(c, "AgentError", "AgentUnavailableError")
            /\ UNCHANGED circuit_breaker
       ELSE IF ~tornado
       THEN /\ AgentRaise(c, "AgentError", "NameError")
            /\ UNCHANGED circuit_breaker
       ELSE /\ agent_pc' = [agent_pc EXCEPT ![c] = "awaiting"]
            /\ agent_frame' = [agent_frame EXCEPT ![c] =
                                  [started |-> 1, state |-> circuit_breaker.current_state]]
            /\ agent_ev' = NoAgentEvent
            /\ UNCHANGED <<agent_metrics, circuit_breaker>>
    /\ UNCHANGED <<tornado, internal_failures>>

\* the breaker once the call it guarded for caller c has ended
BreakerAfter(c, outcome) ==
    IF outcome = "response"
    THEN _handle_success(circuit_breaker, agent_frame[c].state)
    ELSE _handle_error(circuit_breaker, agent_frame[c].state, Raised[outcome])

\* a resumption that starts _process_query_internal again after a timeout,
\* up to retry_attempts times
BaseAgent_process_query_resume_retrying(c, outcome) ==
    /\ agent_pc[c] = "awaiting"
    /\ IF outcome = "response" THEN AgentReturn(c)
       ELSE IF outcome = "timeout" /\ agent_frame[c].started < RETRY_ATTEMPTS
       THEN /\ agent_frame' = [agent_frame EXCEPT ![c].started = @ + 1]
            /\ agent_ev' = NoAgentEvent
            /\ UNCHANGED <<agent_pc, agent_metrics>>
       ELSE IF outcome = "timeout"
       THEN AgentRaise(c, "AgentTimeoutError", "TimeoutError")
       ELSE AgentRaise(c, "AgentError", "Exception")
    /\ circuit_breaker' = BreakerAfter(c, outcome)
    /\ internal_failures' = IF outcome = "response" THEN 0
                            ELSE IF outcome = "timeout"
                                    /\ agent_frame[c].started < RETRY_ATTEMPTS
                            THEN internal_failures
                            ELSE internal_failures + 1
    /\ UNCHANGED tornado

\* the awaited call_async(self._process_query_with_timeout, query) has ended
BaseAgent_process_query_resume(c, outcome) ==
    /\ agent_pc[c] = "awaiting"
    /\ IF outcome = "response" THEN AgentReturn(c)
       ELSE IF outcome = "timeout"
       THEN AgentRaise(c, "AgentTimeoutError", "TimeoutError")
       ELSE AgentRaise(c, "AgentError", "Exception")
    /\ circuit_breaker' = BreakerAfter(c, outcome)
    /\ internal_failures' = IF outcome = "response" THEN 0 ELSE internal_failures + 1
    /\ UNCHANGED tornado

\* circuit_breaker.open(), .half_open() or .close()
circuit_breaker_set(state) ==
    /\ circuit_breaker' = [circuit_breaker EXCEPT !.current_state = state]
    /\ agent_ev' = NoAgentEvent
    /\ UNCHANGED <<agent_metrics, tornado, agent_pc, agent_frame, internal_failures>>

agentRestVars == <<dispatcherVars, status, hist, query, score_vector, decision, coordVars>>

AgentInit ==
    /\ DispatcherInit
    /\ status = AgentStatus(NoAgent)
    /\ hist = <<>>
    /\ query = <<>>
    /\ score_vector = NoScores
    /\ decision = Idle
    /\ CoordinatorInit
    /\ BaseAgentInit
    /\ tornado \in BOOLEAN

AgentProcessQuery ==
    /\ UNCHANGED agentRestVars
    /\ \E c \in AgentCallers : BaseAgent_process_query(c)
AgentProcessQueryResume ==
    /\ UNCHANGED agentRestVars
    /\ \E c \in AgentCallers, outcome \in InternalOutcomes :
           BaseAgent_process_query_resume(c, outcome)
CircuitBreakerSet ==
    /\ UNCHANGED agentRestVars
    /\ \E state \in BreakerStates : circuit_breaker_set(state)

AgentNext ==
    \/ AgentProcessQuery
    \/ AgentProcessQueryResume
    \/ CircuitBreakerSet

SpecAgent == AgentInit /\ [][AgentNext]_vars

(***************************************************************************)
(* CoordinatorAgent._combine_agent_responses on its own: applied once to   *)
(* a dict of agent responses and a query, both drawn in the initial state. *)
(* The response stored for an agent is the agent's own answer to the query *)
(* or the placeholder _handle_collaboration stores for a failed call.      *)
(***************************************************************************)
\* what _handle_collaboration may store for agent_name on query q
StoredResponses(agent_name, q) ==
    {_process_query_internal(agent_name, q),
     <<"Agent", agent_name, "unavailable:">> \o ErrorText(agent_name, "AgentTimeoutError")}

\* the dicts of up to MaxResponses entries, in insertion order, one per agent
ResponseDicts(q) ==
    {d \in SeqsUpTo({[agent_name |-> a, response |-> r] :
                        a \in AgentIds,
                        r \in UNION {StoredResponses(b, q) : b \in AgentIds}},
                    MaxResponses) :
        /\ \A i \in DOMAIN d : d[i].response \in StoredResponses(d[i].agent_name, q)
        /\ \A i, j \in DOMAIN d : d[i].agent_name = d[j].agent_name => i = j}

CombineInit ==
    /\ DispatcherInit
    /\ status = AgentStatus(NoAgent)
    /\ hist = <<>>
    /\ query \in CoordinatorQueries
    /\ score_vector = NoScores
    /\ decision = Idle
    /\ coord_agents = [a \in AgentIds |-> "agent"]
    /\ coord_metrics = [request_count |-> 0, collaboration_count |-> 0,
                        error_count |-> 0]
    /\ coord_pc = "combine"
    /\ coord_frame \in {[tasks |-> <<>>, agent_responses |-> d] : d \in ResponseDicts(query)}
    /\ coord_ev = NoCoordEvent
    /\ coord_is_healthy = TRUE
    /\ BaseAgentInit
    /\ tornado = TRUE

\* combined_response = self._combine_agent_responses(agent_responses, query)
CombineAgentResponses ==
    /\ coord_pc = "combine"
    /\ coord_pc' = "idle"
    /\ coord_ev' = [outcome |-> "return",
                    response |-> _combine_agent_responses(coord_frame.agent_responses,
                                                          query),
                    called |-> {coord_frame.agent_responses[i].agent_name :
                                   i \in DOMAIN coord_frame.agent_responses}]
    /\ UNCHANGED <<coord_agents, coord_metrics, coord_frame, query, decision>>
    /\ UNCHANGED coordRestVars

SpecCombine == CombineInit /\ [][CombineAgentResponses]_vars

(***************************************************************************)
(* CoordinatorAgent.health_check.  The call creates one task per agent of  *)
(* self.agents, in the dict's order, and then awaits them one by one; a    *)
(* step is the call up to its first await, or the code from one awaited    *)
(* task to the next.  An agent instance is one of the built-in agents      *)
(* (BaseAgent: health_check returns True or False and catches every        *)
(* Exception, get_health_status is a plain method that returns a dict),    *)
(* a custom agent handed to register_custom_agent whose health_check may   *)
(* also raise and whose get_health_status is a coroutine function, or      *)
(* None.  Inside the wait loop "agent" is still the variable of the loop   *)
(* that created the tasks: the last agent of the dict.                     *)
(***************************************************************************)
HealthInstances == {"agent", "custom", "None"}

\* how the awaited agent.health_check() task of an instance may end
HealthCheckOutcomes(instance) ==
    IF instance = "agent" THEN {"True", "False"} ELSE {"True", "False", "raises"}

\* whether instance.get_health_status() can be awaited
Awaitable(instance) == instance = "custom"

\* health_status["agents"][agent_name] after the task ended with outcome,
\* agent being the instance whose get_health_status is awaited
HealthEntry(outcome, agent) ==
    IF outcome = "raises"
    THEN [is_healthy |-> FALSE, error |-> "Exception"]
    ELSE IF ~Awaitable(agent)
    THEN [is_healthy |-> FALSE, error |-> "TypeError"]
    ELSE [is_healthy |-> outcome = "True", error |-> "none"]

\* health_status["overall_status"] after that entry was stored
OverallStatus(overall_status, entry) ==
    IF entry.error # "none" THEN "unhealthy"
    ELSE IF ~entry.is_healthy THEN "degraded"
    ELSE overall_status

Coordinator_health_check ==
    /\ coord_pc = "idle"
    /\ IF \E a \in AgentIds : coord_agents[a] = "None"
       THEN /\ coord_ev' = [outcome |-> "AttributeError", response |-> <<>>,
                            called |-> {}]
            /\ UNCHANGED <<coord_pc, coord_frame>>
       ELSE /\ coord_pc' = "health"
            /\ coord_frame' = [tasks |-> AgentOrder, agent_responses |-> <<>>,
                               awaited |-> <<>>, agents |-> <<>>,
                               overall_status |-> "healthy"]
            /\ coord_ev' = NoCoordEvent
    /\ UNCHANGED <<coord_agents, coord_metrics, coord_is_healthy, query, decision>>

\* the awaited task of the next agent has ended
Coordinator_health_check_resume(outcome) ==
    /\ coord_pc = "health"
    /\ LET i == Len(coord_frame.agents) + 1
           agent_name == coord_frame.tasks[i]
           agent == coord_agents[coord_frame.tasks[Len(coord_frame.tasks)]]
           entry == HealthEntry(outcome, agent)
           overall_status == OverallStatus(coord_frame.overall_status, entry)
           agents_ == Append(coord_frame.agents,
                             [agent_name |-> agent_name,
                              is_healthy |-> entry.is_healthy,
                              error |-> entry.error])
       IN /\ outcome \in HealthCheckOutcomes(coord_agents[agent_name])
          /\ IF i < Len(coord_frame.tasks)
             THEN /\ coord_frame' = [coord_frame EXCEPT
                                        !.awaited = Append(@, outcome),
                                        !.agents = agents_,
                                        !.overall_status = overall_status]
                  /\ coord_ev' = NoCoordEvent
                  /\ UNCHANGED <<coord_pc, coord_is_healthy>>
             ELSE /\ coord_is_healthy' = (overall_status \in {"healthy", "degraded"})
                  /\ coord_pc' = "idle"
                  /\ coord_frame' = NoCoordFrame
                  /\ coord_ev' = [outcome |-> "return", response |-> <<>>,
                                  called |-> {},
                                  health_status |->
                                      [agents |-> agents_,
                                       overall_status |-> overall_status]]
    /\ UNCHANGED <<coord_agents, coord_metrics, query, decision>>

healthRestVars == <<dispatcherVars, status, hist, score_vector, agentVars>>

\* a coordinator whose agents are any mix of built-in and custom instances
HealthInit ==
    /\ DispatcherInit
    /\ status = AgentStatus(NoAgent)
    /\ hist = <<>>
    /\ query = <<>>
    /\ score_vector = NoScores
    /\ decision = Idle
    /\ coord_agents \in [AgentIds -> HealthInstances]
    /\ coord_metrics = [request_count |-> 0, collaboration_count |-> 0,
                        error_count |-> 0]
    /\ coord_pc = "idle"
    /\ coord_frame = NoCoordFrame
    /\ coord_ev = NoCoordEvent
    /\ coord_is_healthy = TRUE
    /\ BaseAgentInit
    /\ tornado = TRUE

HealthCheck ==
    /\ UNCHANGED healthRestVars
    /\ Coordinator_health_check
HealthCheckResume ==
    /\ UNCHANGED healthRestVars
    /\ \E outcome \in {"True", "False", "raises"} : Coordinator_health_check_resume(outcome)

HealthNext ==
    \/ HealthCheck
    \/ HealthCheckResume

SpecHealth == HealthInit /\ [][HealthNext]_vars

(***************************************************************************)
(* MultiAgentSystem: the health monitoring of a running system.            *)
(* initialize() builds the coordinator, whose agents are the built-in      *)
(* ones, and starts _health_monitoring_loop, which calls                   *)
(* coordinator.health_check(), sleeps health_check_interval seconds and    *)
(* starts over, for as long as no shutdown is requested.  The dispatcher   *)
(* starts no task of its own: its health_check_task stays None and its     *)
(* health_check_interval is never read.  The dispatcher is taken in any    *)
(* state of its agents' availability; besides the loop, a caller may run   *)
(* health_check_all_agents on it.  The loop is scheduled by the event loop *)
(* whenever a sleep or an awaited health check ends, hence weakly fair;    *)
(* nothing obliges a caller to act.                                        *)
(***************************************************************************)
MonitorOrder == SubSeq(RobinOrder, 1, Cardinality(Names))

MonitorInit ==
    /\ agents = Names
    /\ agent_status = [n \in Names |-> CHOOSE i \in DOMAIN MonitorOrder : MonitorOrder[i] = n]
    /\ \E up \in [DOMAIN MonitorOrder -> BOOLEAN] :
           heap = [i \in DOMAIN MonitorOrder |->
                      IF up[i] THEN AgentStatus(MonitorOrder[i])
                      ELSE [AgentStatus(MonitorOrder[i]) EXCEPT
                                !.is_available = FALSE,
                                !.consecutive_failures = FAILURE_LIMIT]]
    /\ load_balancing_strategy = "round_robin"
    /\ current_agent_index = 0
    /\ pc = [p \in Procs |-> "idle"]
    /\ frame = [p \in Procs |-> NoFrame]
    /\ ev = NoEvent
    /\ status = AgentStatus(NoAgent)
    /\ hist = <<>>
    /\ query = <<>>
    /\ score_vector = NoScores
    /\ decision = Idle
    /\ CoordinatorInit
    /\ BaseAgentInit
    /\ tornado = TRUE

\* one turn of the loop: the health check it calls, up to the sleep
_health_monitoring_loop == HealthCheck \/ HealthCheckResume

MonitorNext ==
    \/ HealthCheck
    \/ HealthCheckResume
    \/ ClientHealthCheckAll
    \/ ClientHealthCheckAgent
    \/ ClientHealthCheckAllResume

SpecMonitor == MonitorInit /\ [][MonitorNext]_vars /\ WF_vars(_health_monitoring_loop)

(***************************************************************************)
(* Properties of AgentStatus and of the dispatcher's bookkeeping.          *)
(***************************************************************************)

\* C1: in every reachable state, an AgentStatus object (registered or already
\* replaced in the registry) whose consecutive_failures is 3 or more has
\* is_available false.
C1_ThreeFailuresUnavailable ==
    \A ref \in 1..Len(heap) :
        heap[ref].consecutive_failures >= 3 => ~heap[ref].is_available

\* a registered agent has reached three consecutive failures
C1_Witness ==
    \E n \in agents :
        /\ heap[agent_status[n]].consecutive_failures >= 3
        /\ ~heap[agent_status[n]].is_available

\* C2: on a fresh AgentStatus, after one or two update_health(false) calls the
\* agent is still available; after the third it is unavailable; one
\* update_health(true) after that makes it available again with the counter
\* at zero.
C2_FreshStatusHealthCycle ==
    /\ hist \in {<<FALSE>>, <<FALSE, FALSE>>} =>
           status.is_available /\ status.consecutive_failures = Len(hist)
    /\ hist = <<FALSE, FALSE, FALSE>> => ~status.is_available
    /\ hist = <<FALSE, FALSE, FALSE, TRUE>> =>
           status.is_available /\ status.consecutive_failures = 0

\* three failures followed by one healthy result have been applied
C2_Witness ==
    /\ hist = <<FALSE, FALSE, FALSE, TRUE>>
    /\ status.is_available
    /\ status.consecutive_failures = 0

\* C3: when a dispatch_request call that invoked the agent completes, the
\* captured AgentStatus object has total_requests one higher; if the agent
\* returned, successful_requests is one higher, consecutive_failures is 0,
\* the agent is available and the call returns the agent's response; if the
\* agent raised, failed_requests and consecutive_failures are one higher and
\* the call raises the agent's error.
C3_DispatchBookkeeping ==
    [][\A p \in Procs :
         /\ \A success \in BOOLEAN, t \in RespTimes :
                dispatch_request_resume(p, success, t) =>
                    ((ev'.outcome = "ok") <=> success)
         /\ (pc[p] = "dispatch" /\ pc'[p] = "idle") =>
                LET old == heap[frame[p].agent_status]
                    new == heap'[frame[p].agent_status]
                IN /\ ev'.op = "dispatch_request"
                   /\ ev'.agent_name = frame[p].agent_name
                   /\ new.total_requests = old.total_requests + 1
                   /\ IF ev'.outcome = "ok"
                      THEN /\ ev'.response = frame[p].agent_name
                           /\ new.successful_requests = old.successful_requests + 1
                           /\ new.failed_requests = old.failed_requests
                           /\ new.consecutive_failures = 0
                           /\ new.is_available
                      ELSE /\ ev'.outcome = "AgentError"
                           /\ ev'.response = NoAgent
                           /\ new.failed_requests = old.failed_requests + 1
                           /\ new.successful_requests = old.successful_requests
                           /\ new.consecutive_failures = old.consecutive_failures + 1
      ]_vars

\* a dispatch_request call has raised its agent's error, the second failure
\* in a row of that agent
C3_Witness ==
    /\ ev.op = "dispatch_request"
    /\ ev.outcome = "AgentError"
    /\ ev.agent_name \in agents
    /\ heap[agent_status[ev.agent_name]].failed_requests = 2
    /\ heap[agent_status[ev.agent_name]].consecutive_failures = 2

\* C4: dispatch_request for a name that is not registered fails with the
\* unknown-agent error, and for a registered agent that is marked unavailable
\* with the agent-unavailable error; in both cases no process_query call is
\* started and no counter changes.  process_query is only ever started for a
\* registered, available agent.
C4_DispatchRejections ==
    [][\A p \in Procs, n \in Names :
         /\ dispatch_request(p, n) =>
                IF n \notin agents
                THEN ev'.outcome = "UnknownAgent" /\ pc' = pc /\ heap' = heap
                ELSE IF ~heap[agent_status[n]].is_available
                THEN ev'.outcome = "AgentUnavailable" /\ pc' = pc /\ heap' = heap
                ELSE pc'[p] = "dispatch" /\ ev' = NoEvent
         /\ (pc[p] = "idle" /\ pc'[p] = "dispatch" /\ frame'[p].agent_name = n) =>
                n \in agents /\ heap[agent_status[n]].is_available
      ]_vars

\* a dispatch_request call to a registered agent was refused because health
\* checks had marked the agent unavailable
C4_Witness ==
    /\ ev.op = "dispatch_request"
    /\ ev.outcome = "AgentUnavailable"
    /\ ev.agent_name \in agents
    /\ ~heap[agent_status[ev.agent_name]].is_available
    /\ heap[agent_status[ev.agent_name]].total_requests = 0
    /\ \A p \in Procs : pc[p] # "dispatch"

\* C5: dispatch_with_failover works through the primary followed by the
\* backups in the given order.  Whenever it starts a call to a candidate,
\* that candidate is registered and available, and every candidate it passed
\* over since the previous attempt is unregistered or unavailable and has
\* none of its counters changed.  The call returns at the first candidate
\* whose dispatch succeeds, with that candidate's response and its name as
\* the agent used, and starts no call to a later candidate.
C5_FailoverOrder ==
    [][\A p \in Procs :
         /\ (pc'[p] = "failover" /\ frame'[p] # frame[p]) =>
                LET fr == frame'[p]
                    from == IF pc[p] = "failover" THEN frame[p].idx + 1 ELSE 1
                IN /\ fr.all_agents = <<fr.primary_agent>> \o fr.backup_agents
                   /\ pc[p] = "failover" => fr.all_agents = frame[p].all_agents
                   /\ fr.idx \in from..Len(fr.all_agents)
                   /\ fr.agent_name = fr.all_agents[fr.idx]
                   /\ fr.agent_status = agent_status[fr.agent_name]
                   /\ IsAvailable(heap', fr.agent_name)
                   /\ \A j \in from..(fr.idx - 1) :
                          ~IsAvailable(heap', fr.all_agents[j])
                   /\ \A ref \in 1..Len(heap) :
                          IF pc[p] = "failover" /\ ref = frame[p].agent_status
                          THEN heap'[ref].failed_requests = heap[ref].failed_requests + 1
                          ELSE heap'[ref] = heap[ref]
         /\ (pc[p] = "failover" /\ frame'[p] # frame[p]) =>
                LET fr == frame[p]
                    old == heap[fr.agent_status]
                    new == heap'[fr.agent_status]
                IN IF new.successful_requests = old.successful_requests + 1
                   THEN /\ pc'[p] = "idle"
                        /\ ev'.op = "dispatch_with_failover"
                        /\ ev'.outcome = "ok"
                        /\ ev'.agent_used = fr.all_agents[fr.idx]
                        /\ ev'.response = fr.all_agents[fr.idx]
                        /\ Calls' = Calls
                   ELSE ev'.outcome # "ok"
      ]_vars

\* a dispatch_with_failover call passed over its unavailable primary, which
\* was never called, and returned the response of a backup
C5_Witness ==
    /\ ev.op = "dispatch_with_failover"
    /\ ev.outcome = "ok"
    /\ ev.agent_used # ev.agent_name
    /\ ev.response = ev.agent_used
    /\ ev.agent_name \in agents
    /\ ~heap[agent_status[ev.agent_name]].is_available
    /\ heap[agent_status[ev.agent_name]].total_requests = 0

\* C6: dispatch_with_failover raises the all-agents-failed error exactly when
\* the candidate list is exhausted without a success: at the start when no
\* candidate is registered and available, or when a candidate's dispatch has
\* failed and no later candidate is registered and available.  A candidate's
\* failure with a later candidate left to try reaches the caller in no form:
\* the call goes on to that candidate.  The call ends in no other way than a
\* success or the all-agents-failed error.
C6_AllAgentsFailed ==
    [][\A p \in Procs :
         /\ ev'.op = "dispatch_with_failover" =>
                ev'.outcome \in {"ok", "AllAgentsFailed"}
         /\ ((\A q \in Procs : pc[q] # "failover") /\ ev'.op = "dispatch_with_failover") =>
                /\ ev'.outcome = "AllAgentsFailed"
                /\ ev'.agent_names # <<>>
                /\ ev'.agent_names[1] = ev'.agent_name
                /\ \A j \in DOMAIN ev'.agent_names :
                       ~IsAvailable(heap, ev'.agent_names[j])
                /\ heap' = heap
         /\ (pc[p] = "idle" /\ pc'[p] = "failover") =>
                /\ ev' = NoEvent
                /\ \E j \in DOMAIN frame'[p].all_agents :
                       IsAvailable(heap, frame'[p].all_agents[j])
         /\ (pc[p] = "failover" /\ frame'[p] # frame[p]) =>
                LET fr == frame[p]
                    success == heap'[fr.agent_status].successful_requests =
                                   heap[fr.agent_status].successful_requests + 1
                    later == {j \in (fr.idx + 1)..Len(fr.all_agents) :
                                 IsAvailable(heap', fr.all_agents[j])}
                IN /\ (ev'.outcome = "ok") <=> success
                   /\ (ev'.outcome = "AllAgentsFailed") <=> (~success /\ later = {})
                   /\ ev'.outcome = "AllAgentsFailed" => ev'.agent_names = fr.all_agents
                   /\ (~success /\ later # {}) =>
                          /\ ev' = NoEvent
                          /\ pc'[p] = "failover"
                          /\ frame'[p].idx \in later
      ]_vars

\* a dispatch_with_failover call over two registered candidates raised the
\* all-agents-failed error after it had called and failed both of them
C6_Witness ==
    /\ ev.op = "dispatch_with_failover"
    /\ ev.outcome = "AllAgentsFailed"
    /\ Range(ev.agent_names) = Names
    /\ agents = Names
    /\ \A n \in Names :
           /\ heap[agent_status[n]].failed_requests = 1
           /\ heap[agent_status[n]].total_requests = 1

\* C7: health_check_all_agents starts one check per agent registered at the
\* time of the call and returns a mapping with exactly one boolean for each
\* of those agents, whatever is registered or unregistered meanwhile.  An
\* agent's entry is true exactly when its health_check returned true while
\* the agent was registered at that moment: an agent whose check raises or
\* returns false, or that is not registered at the moment its own check
\* completes, is recorded as false, and the batch goes on with the others.
C7_HealthCheckMapping ==
    [][\A p \in Procs :
         /\ (pc[p] = "idle" /\ pc'[p] = "health") =>
                frame'[p].tasks = [n \in agents |-> "pending"]
         /\ ((\A q \in Procs : pc[q] # "health") /\ ev'.op = "health_check_all_agents") =>
                agents = {} /\ ev'.outcome = "ok" /\ DOMAIN ev'.health_results = {}
         /\ (pc[p] = "health" /\ frame'[p] # frame[p] /\ pc'[p] = "health") =>
                /\ DOMAIN frame'[p].tasks = DOMAIN frame[p].tasks
                /\ ev' = NoEvent
                /\ \E n \in DOMAIN frame[p].tasks :
                       /\ frame[p].tasks[n] = "pending"
                       /\ frame'[p].tasks[n] # "pending"
                       /\ n \notin agents => frame'[p].tasks[n] # "True"
                       /\ \A m \in DOMAIN frame[p].tasks \ {n} :
                              frame'[p].tasks[m] = frame[p].tasks[m]
         /\ \A n \in Names, o \in HealthOutcomes :
                (pc[p] = "health" /\ _health_check_agent(p, n, o)) =>
                    ((frame'[p].tasks[n] = "True") <=> (o = "healthy" /\ n \in agents))
         /\ (pc[p] = "health" /\ pc'[p] = "idle") =>
                /\ ev'.op = "health_check_all_agents"
                /\ ev'.outcome = "ok"
                /\ DOMAIN ev'.health_results = DOMAIN frame[p].tasks
                /\ \A n \in DOMAIN frame[p].tasks :
                       /\ ev'.health_results[n] \in BOOLEAN
                       /\ ev'.health_results[n] <=> (frame[p].tasks[n] = "True")
      ]_vars

\* a batch over two agents has returned: one agent was unregistered before
\* its check completed and is recorded false, the other is recorded true
C7_Witness ==
    /\ ev.op = "health_check_all_agents"
    /\ DOMAIN ev.health_results = Names
    /\ \E n \in Names :
           /\ n \notin agents
           /\ ~ev.health_results[n]
           /\ \A m \in Names \ {n} : m \in agents /\ ev.health_results[m]

\* C7 as stated: every agent that was unregistered while the checks of a
\* batch were in flight is recorded as false in that batch's mapping.
C7_UnregisteredInFlightIsFalse ==
    [][\A p \in Procs :
         (pc[p] = "health" /\ pc'[p] = "idle") =>
             \A n \in DOMAIN ev'.health_results :
                 n \notin agents => ~ev'.health_results[n]
      ]_vars

\* C8: under every strategy and cursor value, select_agent returns no agent
\* exactly when no name of the candidate list is registered and available;
\* otherwise it returns a candidate that is registered and available, and
\* when exactly one such candidate exists it returns that one.
C8_SelectAgent ==
    /\ [](\A c \in SeqsUpTo(Names, MaxCands) :
              LET eligible == {n \in Range(c) :
                                  n \in agents /\ heap[agent_status[n]].is_available}
                  selected == SelectResult(c)
              IN /\ (selected = NoAgent) <=> (eligible = {})
                 /\ eligible # {} => selected \in eligible
                 /\ \A n \in eligible : eligible = {n} => selected = n)
    /\ [][ev'.op = "select_agent" =>
              /\ select_agent(ev'.agent_names)
              /\ ev'.agent_used = SelectResult(ev'.agent_names)
         ]_vars

\* select_agent, under least_connections, was given a registered candidate
\* that is unavailable and has served no request, and an available one that
\* has served one: it returned the available one
C8_Witness ==
    /\ ev.op = "select_agent"
    /\ load_balancing_strategy = "least_connections"
    /\ Len(ev.agent_names) = 2
    /\ ev.agent_names[1] \in agents
    /\ ~heap[agent_status[ev.agent_names[1]]].is_available
    /\ heap[agent_status[ev.agent_names[1]]].total_requests = 0
    /\ ev.agent_used = ev.agent_names[2]
    /\ ev.agent_used \in agents
    /\ heap[agent_status[ev.agent_used]].total_requests = 1

\* C9: a name that is not registered - never registered, or unregistered
\* after any history, successful dispatches included - is absent from
\* get_available_agents, is never returned by select_agent, and makes
\* dispatch_request fail with the unknown-agent error.  unregister_agent
\* leaves the name unregistered, and only register_agent of that name
\* registers it again.
C9_UnregisteredIsGone ==
    /\ [](\A n \in Names \ agents :
              /\ n \notin get_available_agents
              /\ \A c \in SeqsUpTo(Names, MaxCands) : SelectResult(c) # n)
    /\ [][\A n \in Names :
              /\ unregister_agent(n) => n \notin agents'
              /\ (n \notin agents /\ n \in agents') => register_agent(n)
              /\ (n \notin agents /\ ev'.op = "select_agent") => ev'.agent_used # n
              /\ (n \notin agents /\ dispatch_request(Client, n)) =>
                     ev'.outcome = "UnknownAgent" /\ pc' = pc /\ heap' = heap
         ]_vars

\* an agent that had served a request successfully was unregistered, and a
\* dispatch_request to its name then failed with the unknown-agent error
C9_Witness ==
    /\ ev.op = "dispatch_request"
    /\ ev.outcome = "UnknownAgent"
    /\ ev.agent_name \notin agents
    /\ \E ref \in 1..Len(heap) :
           /\ heap[ref].agent_name = ev.agent_name
           /\ heap[ref].successful_requests = 1

(***************************************************************************)
(* Properties of RoutingLogic.analyze_query.                               *)
(***************************************************************************)

\* C10: for a query in which no keyword of any domain occurs, so that all
\* four scores are zero, the routing decision has confidence zero, primary
\* agent hello_agent and query type GENERAL.
C10_NoKeywordDefaultsToHello ==
    (decision # Idle /\ \A a \in DOMAIN decision.scores : decision.scores[a] = 0) =>
        /\ decision.confidence = [num |-> 0, den |-> 1]
        /\ decision.primary_agent = "hello_agent"
        /\ decision.query_type = "GENERAL"

(***************************************************************************)
(* Properties of the routing decision as a function of the score vector.   *)
(***************************************************************************)

\* C11: for every score vector, the primary agent is one of the four domains
\* and scores the maximum; every domain before it in the order tech,
\* creative, business, general scores strictly less, so that among several
\* domains sharing the maximum the first one is chosen.
C11_PrimaryIsFirstMaximum ==
    decision # Idle =>
        \E i \in 1..4 :
            /\ decision.primary_agent = AgentOrder[i]
            /\ \A j \in 1..4 : score_vector[AgentOrder[j]] <= score_vector[AgentOrder[i]]
            /\ \A j \in 1..(i - 1) : score_vector[AgentOrder[j]] < score_vector[AgentOrder[i]]

\* creative and general share a positive maximum that tech and business miss,
\* and the decision names creative_agent
C11_Witness ==
    /\ decision # Idle
    /\ score_vector["creative_agent"] = score_vector["hello_agent"]
    /\ score_vector["creative_agent"] > score_vector["tech_agent"]
    /\ score_vector["creative_agent"] > score_vector["business_agent"]
    /\ decision.primary_agent = "creative_agent"

\* the QueryType of a domain's agent
Category(agent) ==
    CASE agent = "tech_agent" -> "TECHNICAL"
      [] agent = "creative_agent" -> "CREATIVE"
      [] agent = "business_agent" -> "BUSINESS"
      [] OTHER -> "GENERAL"

\* C12: for every score vector, query_type is COLLABORATION if and only if
\* at least two of the four domains, the primary included, score at least
\* eight tenths of the maximum; otherwise query_type is the category of the
\* primary agent's domain.
C12_CollaborationIffTwoHighScores ==
    decision # Idle =>
        LET max_score == score_vector[decision.primary_agent]
            high == {i \in 1..4 : 10 * score_vector[AgentOrder[i]] >= 8 * max_score}
        IN IF Cardinality(high) >= 2
           THEN decision.query_type = "COLLABORATION"
           ELSE decision.query_type = Category(decision.primary_agent)

TotalScore ==
    score_vector["tech_agent"] + score_vector["creative_agent"]
    + score_vector["business_agent"] + score_vector["hello_agent"]

\* C14: for every vector of non-negative scores, confidence (a fraction
\* num/den) equals min(2 * max / total, 1), lies in [0, 1], and is 0 if and
\* only if the total of the four scores is 0.
C14_Confidence ==
    decision # Idle =>
        LET max_score == score_vector[decision.primary_agent]
            num == decision.confidence.num
            den == decision.confidence.den
        IN /\ den > 0
           /\ 0 <= num /\ num <= den
           /\ (num = 0) <=> (TotalScore = 0)
           /\ TotalScore > 0 =>
                  IF 2 * max_score >= TotalScore THEN num = den
                  ELSE num * TotalScore = 2 * max_score * den

\* the maximum is less than half of the total, and the confidence lies
\* strictly between 0 and 1
C14_Witness ==
    /\ decision # Idle
    /\ 2 * score_vector[decision.primary_agent] < TotalScore
    /\ 0 < decision.confidence.num
    /\ decision.confidence.num < decision.confidence.den

(***************************************************************************)
(* Properties of agent lookups and of the coordinator's process_query.     *)
(***************************************************************************)

\* a step in which a CoordinatorAgent.process_query call starts
ProcessQueryStarts ==
    coord_pc = "idle" /\ (coord_pc' # "idle" \/ coord_metrics' # coord_metrics)

\* the first candidate index a dispatch_with_failover step looks at
FailoverFrom == IF pc[Client] = "failover" THEN frame[Client].idx + 1 ELSE 1

Contains(s, sub) ==
    \E i \in 0..(Len(s) - Len(sub)) : SubSeq(s, i + 1, i + Len(sub)) = sub

\* the section of the combined answer that holds response under agent_name
Section(agent_name, response) == <<TitleCase[agent_name]>> \o CleanResponse(response)

\* the placeholder stored for an agent whose call raised e
Placeholder(agent_name, e) ==
    <<"Agent", agent_name, "unavailable:">> \o ErrorText(agent_name, e)

C17_NoResponsesGivesFixedMessage ==
    (/\ coord_ev.outcome = "return"
     /\ decision # Idle
     /\ decision.query_type = "COLLABORATION"
     /\ \A a \in AgentIds : ~Contains(coord_ev.response, CleanResponse(AgentResponse(a))))
        => coord_ev.response = NoResponseMessage

\* a process_query call of the agent ends in this step
AgentCallEnds == agent_ev'.outcome # "none"

\* C18: a process_query call made while the agent's circuit breaker is open
\* ends at once, the caller receives an AgentUnavailableError, and
\* _process_query_internal is not started.
C18_OpenBreakerGivesAgentUnavailable ==
    [][\A c \in AgentCallers :
          (circuit_breaker.current_state = "open" /\ BaseAgent_process_query(c))
             => /\ AgentCallEnds
                /\ agent_ev'.outcome = "AgentUnavailableError"
                /\ agent_ev'.started = 0]_vars

C20_TimeoutFailsWithoutRetry ==
    /\ [](\A c \in AgentCallers : agent_frame[c].started <= 1)
    /\ [](agent_ev.started <= 1)
    /\ [][\A c \in AgentCallers :
             BaseAgent_process_query_resume(c, "timeout")
                => /\ AgentCallEnds
                   /\ agent_ev'.caller = c
                   /\ agent_ev'.outcome = "AgentTimeoutError"
                   /\ agent_ev'.started = 1]_vars

\* a call timed out after starting _process_query_internal once
C20_Witness ==
    /\ agent_ev.outcome = "AgentTimeoutError"
    /\ agent_ev.cause = "TimeoutError"
    /\ agent_ev.started = 1

Combined ==
    /\ coord_ev.outcome = "return"
    /\ coord_frame.agent_responses # <<>>

\* C22: the text _combine_agent_responses builds from a non-empty dict holds
\* the original query and, for every entry, a section labelled with the
\* agent's name in title case; the section of an agent whose own response
\* was stored holds that response without the identifier the agent put in
\* front of it, for each of the four agents.
C22_SectionsWithoutIdentifier ==
    Combined =>
       /\ Contains(coord_ev.response, <<"Original Query:">> \o query)
       /\ \A i \in DOMAIN coord_frame.agent_responses :
              LET e == coord_frame.agent_responses[i]
              IN /\ Contains(coord_ev.response, <<TitleCase[e.agent_name]>>)
                 /\ e.response = _process_query_internal(e.agent_name, query) =>
                       /\ e.response[1] = AgentPrefix[e.agent_name]
                       /\ Contains(coord_ev.response,
                                   <<TitleCase[e.agent_name]>> \o Tail(e.response))
                       /\ ~Contains(coord_ev.response, <<AgentPrefix[e.agent_name]>>)

\* C23: in a collaboration, when the awaited call of one agent ends by its
\* timeout or by cancellation, the call goes on with the sibling agents and
\* process_query then returns the composite answer, which holds a section
\* for every sibling with the response stored for it.
C23_CancellationKeepsSiblings ==
    [][\A outcome \in {"AgentTimeoutError", "CancelledError"} :
          _handle_collaboration_resume(outcome) =>
              LET done == coord_frame.agent_responses
              IN IF Len(done) + 1 < Len(coord_frame.tasks)
                 THEN /\ coord_pc' = "collaboration"
                      /\ coord_frame'.tasks = coord_frame.tasks
                 ELSE /\ coord_ev'.outcome = "return"
                      /\ \A i \in DOMAIN done :
                             Contains(coord_ev'.response,
                                      Section(done[i].agent_name, done[i].response))
      ]_vars

\* C24: a decision of query type COLLABORATION names at least two distinct
\* agents to query: every agent whose score reached 80% of the highest
\* score is the primary agent or one of the secondary agents.
C24_CollaborationQueriesTwoAgents ==
    (decision # Idle /\ decision.query_type = "COLLABORATION") =>
        LET participating == Range(ParticipatingAgents(decision))
            max_score == decision.scores[decision.primary_agent]
        IN /\ Cardinality(participating) >= 2
           /\ \A a \in AgentIds :
                  HighScore(decision.scores[a], max_score) => a \in participating

\* C25: the process_query step that completes failure_threshold failed calls
\* of _process_query_internal in a row leaves the circuit breaker open, and
\* while the breaker is open every process_query call is rejected without
\* starting _process_query_internal.
C25_BreakerOpensAfterThreshold ==
    /\ [][(internal_failures' # internal_failures
            /\ internal_failures' >= FAILURE_THRESHOLD)
              => circuit_breaker'.current_state = "open"]_vars
    /\ [][\A c \in AgentCallers :
             (circuit_breaker.current_state = "open" /\ BaseAgent_process_query(c))
                => /\ AgentCallEnds
                   /\ agent_ev'.outcome # "return"
                   /\ agent_ev'.started = 0]_vars

\* how often x occurs in the sequence s
Occurrences(s, x) == Cardinality({i \in DOMAIN s : s[i] = x})

\* C26: under round-robin, with a fixed list of n >= 2 available candidates
\* and unchanged availability, every select_agent call picks the candidate
\* at index (cursor mod n) and advances the cursor by one, so that any n
\* consecutive calls return each candidate exactly once; a call that finds
\* zero or one available candidate leaves the cursor unchanged.
C26_RoundRobinRotation ==
    /\ [][ev'.op = "select_agent" =>
             LET available == available_agents(ev'.agent_names)
                 n == Len(available)
             IN IF n >= 2
                THEN /\ ev'.agent_used = available[(current_agent_index % n) + 1]
                     /\ current_agent_index' = current_agent_index + 1
                ELSE current_agent_index' = current_agent_index]_vars
    /\ [](hist # <<>> =>
             LET available == available_agents(hist[1].agent_names)
                 n == Len(available)
             IN n >= 2 =>
                  \A first \in 1..(Len(hist) - n + 1) :
                      \A x \in RobinNames :
                          Occurrences(SubSeq([k \in DOMAIN hist |-> hist[k].agent_used],
                                             first, first + n - 1), x)
                             = Occurrences(available, x))

\* three calls with three distinct available candidates, the first of them
\* made when the cursor was not a multiple of three
C26_Witness ==
    /\ Len(hist) = 3
    /\ hist[1].agent_names = <<"a", "b", "c">>
    /\ available_agents(hist[1].agent_names) = <<"a", "b", "c">>
    /\ hist[1].index = 1
    /\ hist[3].agent_used = "a"

\* this step turns the registered agent n from unavailable to available
BecomesAvailable(n) ==
    /\ n \in DOMAIN agent_status
    /\ ~heap[agent_status[n]].is_available
    /\ n \in DOMAIN agent_status'
    /\ heap'[agent_status'[n]].is_available

\* this step registers n again, or is a health check of n that reports healthy
RegisteredOrHealthy(n) ==
    \/ agent_status'[n] # agent_status[n]
    \/ \E p \in Procs : /\ pc[p] = "health"
                         /\ n \in DOMAIN frame[p].tasks
                         /\ frame[p].tasks[n] = "pending"
                         /\ frame'[p].tasks[n] = "True"

\* this step is the successful end of a call to n that was in flight
InFlightSucceeds(n) ==
    \E p \in Procs : /\ pc[p] \in {"dispatch", "failover"}
                     /\ frame[p].agent_name = n
                     /\ frame[p].agent_status = agent_status[n]
                     /\ pc'[p] = "idle"
                     /\ ev'.outcome = "ok"

\* C27: once a registered agent's is_available is false it stays false until
\* a health check reports the agent healthy or the agent is registered
\* again; no dispatch_request or dispatch_with_failover call, a call that
\* was in flight when it became unavailable included, makes it available.
C27_UnavailableUntilHealthCheck ==
    [][\A n \in Names : BecomesAvailable(n) => RegisteredOrHealthy(n)]_vars

\* C27 as the code has it: an unavailable agent becomes available by a
\* health check that reports it healthy, by being registered again, or by
\* the successful end of a dispatch to it that was in flight when it became
\* unavailable; a call that starts to await an agent finds it available.
C27_UnavailableUntilHealthSignal ==
    /\ [][\A n \in Names :
             BecomesAvailable(n) => RegisteredOrHealthy(n) \/ InFlightSucceeds(n)]_vars
    /\ [][\A p \in Procs :
             (pc'[p] \in {"dispatch", "failover"} /\ frame'[p] # frame[p])
                => heap'[frame'[p].agent_status].is_available]_vars

\* an agent is unavailable while a dispatch to it is in flight
C27_Witness ==
    \E p \in Procs, n \in Names :
        /\ pc[p] \in {"dispatch", "failover"}
        /\ frame[p].agent_name = n
        /\ n \in DOMAIN agent_status
        /\ frame[p].agent_status = agent_status[n]
        /\ ~heap[agent_status[n]].is_available

\* C28: with the system's health monitoring running, a registered agent that
\* the dispatcher has marked unavailable is eventually marked available again
\* without a caller doing anything.
C28_MonitoringRestoresAvailability ==
    \A n \in Names :
        (n \in DOMAIN agent_status /\ ~heap[agent_status[n]].is_available)
            ~> (n \in DOMAIN agent_status /\ heap[agent_status[n]].is_available)

\* C29: the request counters of every AgentStatus satisfy total_requests =
\* successful_requests + failed_requests; as long as a name keeps its status
\* object none of the three counters decreases; the status of a name is
\* replaced by register_agent only, and register_agent, also for a name that
\* is already registered, leaves the name with a new status: available, all
\* counters at zero.
C29_CountersResetOnlyByRegistration ==
    /\ [](\A ref \in 1..Len(heap) :
             heap[ref].total_requests
                = heap[ref].successful_requests + heap[ref].failed_requests)
    /\ [][\A n \in Names :
             /\ (n \in DOMAIN agent_status /\ n \in DOMAIN agent_status')
                   => IF agent_status'[n] = agent_status[n]
                      THEN LET old == heap[agent_status[n]]
                               new == heap'[agent_status'[n]]
                           IN /\ new.total_requests >= old.total_requests
                              /\ new.successful_requests >= old.successful_requests
                              /\ new.failed_requests >= old.failed_requests
                      ELSE register_agent(n)
             /\ register_agent(n)
                   => /\ n \in DOMAIN agent_status'
                      /\ heap'[agent_status'[n]] = AgentStatus(n)]_vars

\* a name registered again after its agent had served requests and had been
\* marked unavailable: the name's status is new, the old one is as it was
C29_Witness ==
    \E n \in Names, ref \in 1..Len(heap) :
        /\ heap[ref].agent_name = n
        /\ ~heap[ref].is_available
        /\ heap[ref].total_requests > 0
        /\ n \in DOMAIN agent_status
        /\ agent_status[n] > ref
        /\ heap[agent_status[n]] = AgentStatus(n)

\* C30: a Coordinator.health_check call that returns reports overall_status
\* "healthy", and leaves the coordinator's is_healthy true, when every
\* agent's health check returned true; it reports "degraded" when some
\* agent's health check returned false and none raised; and it reports
\* "unhealthy" only when an agent's health check raised.
C30_HealthCheckStatuses ==
    [][\A outcome \in {"True", "False", "raises"} :
          (Coordinator_health_check_resume(outcome) /\ coord_pc' = "idle") =>
              LET awaited == Append(coord_frame.awaited, outcome)
                  overall_status == coord_ev'.health_status.overall_status
              IN /\ (\A i \in DOMAIN awaited : awaited[i] = "True")
                        => overall_status = "healthy" /\ coord_is_healthy'
                 /\ (/\ \E i \in DOMAIN awaited : awaited[i] = "False"
                     /\ \A i \in DOMAIN awaited : awaited[i] # "raises")
                        => overall_status = "degraded"
                 /\ overall_status = "unhealthy"
                        => \E i \in DOMAIN awaited : awaited[i] = "raises"]_vars

====
